---- MODULE Spec2Model ----
(***************************************************************************)
(* Model of the uPIMulator interconnect fabrics:                           *)
(*   - DQPinPartition, CrossbarSwitch, InterChipSwitch                     *)
(*       (interconnect/inter_chip_switch.go)                               *)
(*   - InterRankControlQ (interconnect/inter_rank_control.go)              *)
(*   - RingTopology (collective, ring all-reduce)                          *)
(* Go objects are records; every method is a pure operator from the        *)
(* receiver and the arguments to the new receiver and the returned value,  *)
(* and one action per method applies it to the state.                      *)
(***************************************************************************)
EXTENDS Integers, Sequences, FiniteSets, TLC

VARIABLES
    crossbar,   \* the CrossbarSwitch object
    ics,        \* the InterChipSwitch object (its crossbar is the variable above)
    dq,         \* the DQPinPartition object
    lastOp,     \* the last call made by the driver, with its arguments and result
    issued,     \* history: the transfer ids returned by successful StartTransfer calls
    crashed,    \* TRUE once a call has panicked (the run-time aborts the program)
    pc,         \* per thread: where the thread is in its current crossbar call
    call,       \* per thread: the call in progress and its arguments
    reg,        \* per thread: a local of the call in progress (the loaded cs.cycles, ...)
    mu,         \* the mutex of the shared object: 0 when free, else the thread holding it
    readers,    \* the threads holding the read lock of the shared object
    cycleCalls, \* history: the number of CrossbarSwitch.Cycle() calls that returned
    irq,        \* the InterRankControlQ object
    readResult, \* the message list returned by the last call when it was a Read, else empty
    delivered,  \* history: per bucket, the messages delivered since its last Read or Clear
    ledger,     \* history of the threaded queue runs: the messages enqueued, and per
                \* bucket the messages that Read and Clear took out
    ring,       \* the RingTopology object
    allReduce,  \* the RingTopology call in progress: its locals, and what it returned
    rst,        \* the ReduceScatterTopology object
    rsCall,     \* the ReduceScatterTopology call in progress: its locals, and what it returned
    net,        \* history: the calls the collectives have made to the mesh network
    codec       \* the last encode and decode calls: arguments and results

thrVars == <<pc, call, reg, mu, readers, cycleCalls>>

irqVars == <<irq, readResult, delivered, ledger>>

ringVars == <<ring, allReduce, rst, rsCall, net, codec>>

vars == <<crossbar, ics, dq, lastOp, issued, crashed, thrVars, irqVars, ringVars>>

(***************************************************************************)
(* Bounds of the model                                                     *)
(***************************************************************************)
XbarInputs  == 3    \* inputs of the stand-alone crossbar
XbarOutputs == 3    \* outputs of the stand-alone crossbar
MaxSwitches == 3    \* cap on the total_switches counter
MaxBlocked  == 2    \* cap on the blocked_attempts counter
MaxCycles   == 2    \* cap on the cycle counters
NumChips == 2    \* chips of the inter-chip switch
NumDQChannels == 1  \* DQ channels of the inter-chip switch
PinsPerDQChannel == 4   \* DQ pins of each channel of the inter-chip switch
MaxTransfers == 2   \* cap on the number of transfers started
MaxLen      == 1    \* longest payload of a transfer, in bytes
MaxICSCycles == 1   \* cap on the cycle counter of the inter-chip switch
MaxICSBlocked == 1  \* cap on blocked_attempts of the inter-chip switch's crossbar
NumThreads  == 2    \* threads calling into the shared crossbar
MTPorts     == 2    \* inputs and outputs of the crossbar shared by the threads
MTMaxSwitches == 2  \* cap on total_switches in the threaded runs
MTMaxBlocked == 1   \* cap on blocked_attempts in the threaded runs
MTMaxCycleCalls == 2 \* cap on the number of Cycle() calls in the threaded runs
IRQChannels == 2    \* channels of the inter-rank queue
IRQRanks    == 2    \* ranks per channel of the inter-rank queue
IRQBusWidth == 1    \* bus width given to InterRankControlQ.Init
IRQBandwidth == 2   \* bytes per cycle of the inter-rank queue
MaxMsgLen   == 1    \* longest payload enqueued, in bytes
MaxMsgs     == 2    \* cap on the number of messages enqueued
BusMaxMsgs  == 2    \* cap on the messages enqueued when only the bus is driven
MaxIRQCycles == 1   \* cap on the cycle counter of the inter-rank queue
FlowMaxMsgs == 3    \* cap on the messages enqueued when the bus bandwidth is exercised
FlowMaxCycles == 2  \* cap on the cycle counter when the bus bandwidth is exercised

CapMaxCycles == 1   \* cap on the cycle counter when the queue is filled to capacity

InitMaxDim  == 2    \* largest channel and rank count tried on InterRankControlQ.Init

QMTMaxMsgs  == 4    \* cap on the messages the threads enqueue on the shared queue
QMTMaxCycles == 1   \* cap on the cycle counter of the queue shared by the threads

RingMaxNodes == 4   \* largest number of nodes of a ring
RSMaxNodes  == 3    \* largest number of nodes of a reduce-scatter ring
RSMaxValue  == 2    \* the constant rows of an input matrix hold 1 to this value, or MaxWord
RingMaxValue == 2   \* the inputs of a node run from 1 to this value, or are MaxWord
WordBits    == 12   \* bits of the word that stands for an int64

MaxPins     == 8    \* largest total_pins tried on DQPinPartition.Init
MaxChannels == 4    \* largest num_channels tried on DQPinPartition.Init

TotalDQPins == NumDQChannels * PinsPerDQChannel

NONE == -1          \* "not connected" marker of the connection arrays

NoOp == [op |-> "none", a |-> 0, b |-> 0, c |-> 0, d |-> 0, ok |-> TRUE, id |-> -1]

Call(op, a, b, c, d, ok, id) ==
    [op |-> op, a |-> a, b |-> b, c |-> c, d |-> d, ok |-> ok, id |-> id]

(***************************************************************************)
(* Threads.  A method that starts with cs.mu.Lock(); defer cs.mu.Unlock()  *)
(* is two steps of its thread: taking the lock, then the body together     *)
(* with the release.  Cycle() takes no lock: cs.cycles++ is a load and a   *)
(* store of the shared counter.                                            *)
(***************************************************************************)
Threads == 1..NumThreads

NoCall == [op |-> "none", a |-> 0, b |-> 0]

ThreadsIdle ==
    /\ pc = [t \in Threads |-> "idle"]
    /\ call = [t \in Threads |-> NoCall]
    /\ reg = [t \in Threads |-> 0]
    /\ readers = {}
    /\ mu = 0
    /\ cycleCalls = 0

(***************************************************************************)
(* CrossbarSwitch                                                          *)
(***************************************************************************)
CrossbarInit(numInputs, numOutputs) ==
    [ numInputs          |-> numInputs,
      numOutputs         |-> numOutputs,
      connections        |-> [i \in 0..(numInputs - 1) |-> NONE],
      reverseConnections |-> [o \in 0..(numOutputs - 1) |-> NONE],
      totalSwitches      |-> 0,
      blockedAttempts    |-> 0,
      cycles             |-> 0 ]

\* Variants of Connect with a plausible slip, used to validate the properties.
\* (a) re-pointing an input forgets to free the output it held
CrossbarConnect_NoTearDown(cs, inputID, outputID) ==
    IF inputID < 0 \/ inputID >= cs.numInputs
    THEN [ok |-> FALSE, cs |-> cs]
    ELSE IF outputID < 0 \/ outputID >= cs.numOutputs
    THEN [ok |-> FALSE, cs |-> cs]
    ELSE IF cs.reverseConnections[outputID] # NONE
    THEN [ok |-> FALSE,
          cs |-> [cs EXCEPT !.blockedAttempts = @ + 1]]
    ELSE [ok |-> TRUE,
          cs |-> [cs EXCEPT !.connections = [@ EXCEPT ![inputID] = outputID],
                            !.reverseConnections = [@ EXCEPT ![outputID] = inputID],
                            !.totalSwitches = @ + 1]]

\* (b) a busy output is refused without counting the blocked attempt
CrossbarConnect_NoBlockCount(cs, inputID, outputID) ==
    IF inputID < 0 \/ inputID >= cs.numInputs
    THEN [ok |-> FALSE, cs |-> cs]
    ELSE IF outputID < 0 \/ outputID >= cs.numOutputs
    THEN [ok |-> FALSE, cs |-> cs]
    ELSE IF cs.reverseConnections[outputID] # NONE
    THEN [ok |-> FALSE, cs |-> cs]
    ELSE LET prevOutput == cs.connections[inputID]
             rev1 == IF prevOutput # NONE
                     THEN [cs.reverseConnections EXCEPT ![prevOutput] = NONE]
                     ELSE cs.reverseConnections
         IN [ok |-> TRUE,
             cs |-> [cs EXCEPT !.connections = [@ EXCEPT ![inputID] = outputID],
                               !.reverseConnections = [rev1 EXCEPT ![outputID] = inputID],
                               !.totalSwitches = @ + 1]]

\* (c) an input that already holds a connection is refused instead of re-pointed
CrossbarConnect_RejectBusyInput(cs, inputID, outputID) ==
    IF inputID < 0 \/ inputID >= cs.numInputs
    THEN [ok |-> FALSE, cs |-> cs]
    ELSE IF outputID < 0 \/ outputID >= cs.numOutputs
    THEN [ok |-> FALSE, cs |-> cs]
    ELSE IF cs.reverseConnections[outputID] # NONE \/ cs.connections[inputID] # NONE
    THEN [ok |-> FALSE,
          cs |-> [cs EXCEPT !.blockedAttempts = @ + 1]]
    ELSE [ok |-> TRUE,
          cs |-> [cs EXCEPT !.connections = [@ EXCEPT ![inputID] = outputID],
                            !.reverseConnections = [@ EXCEPT ![outputID] = inputID],
                            !.totalSwitches = @ + 1]]

\* Connect(inputID, outputID): result [ok, cs]
CrossbarConnect(cs, inputID, outputID) ==
    IF inputID < 0 \/ inputID >= cs.numInputs
    THEN [ok |-> FALSE, cs |-> cs]
    ELSE IF outputID < 0 \/ outputID >= cs.numOutputs
    THEN [ok |-> FALSE, cs |-> cs]
    ELSE IF cs.reverseConnections[outputID] # NONE
    THEN [ok |-> FALSE,
          cs |-> [cs EXCEPT !.blockedAttempts = @ + 1]]
    ELSE LET prevOutput == cs.connections[inputID]
             rev1 == IF prevOutput # NONE
                     THEN [cs.reverseConnections EXCEPT ![prevOutput] = NONE]
                     ELSE cs.reverseConnections
         IN [ok |-> TRUE,
             cs |-> [cs EXCEPT !.connections = [@ EXCEPT ![inputID] = outputID],
                               !.reverseConnections = [rev1 EXCEPT ![outputID] = inputID],
                               !.totalSwitches = @ + 1]]

CrossbarDisconnect(cs, inputID) ==
    IF inputID < 0 \/ inputID >= cs.numInputs
    THEN cs
    ELSE LET outputID == cs.connections[inputID]
         IN IF outputID # NONE
            THEN [cs EXCEPT !.connections = [@ EXCEPT ![inputID] = NONE],
                            !.reverseConnections = [@ EXCEPT ![outputID] = NONE]]
            ELSE cs

CrossbarDisconnectAll(cs) ==
    [cs EXCEPT !.connections = [i \in 0..(cs.numInputs - 1) |-> NONE],
               !.reverseConnections = [o \in 0..(cs.numOutputs - 1) |-> NONE]]

CrossbarCycle(cs) == [cs EXCEPT !.cycles = @ + 1]

\* GetConnection(inputID) for any argument (NONE when out of range)
CrossbarHeldBy(cs, inputID) ==
    IF inputID \in DOMAIN cs.connections THEN cs.connections[inputID] ELSE NONE

\* the "active_connections" entry of GetStatistics
CrossbarActiveConnections(cs) ==
    Cardinality({i \in DOMAIN cs.connections : cs.connections[i] # NONE})

(***************************************************************************)
(* Go integer arithmetic: / truncates toward zero, % takes the sign of the *)
(* dividend; both panic on a zero divisor (callers test for it first).     *)
(***************************************************************************)
Abs(n) == IF n < 0 THEN -n ELSE n

GoDiv(a, b) ==
    IF (a < 0) = (b < 0) THEN Abs(a) \div Abs(b) ELSE -(Abs(a) \div Abs(b))

GoRem(a, b) == a - b * GoDiv(a, b)

(***************************************************************************)
(* DQPinPartition                                                          *)
(***************************************************************************)
\* the zero value of the struct (channelPins is a nil map)
IdleDQ == [totalPins |-> 0, numChannels |-> 0, pinsPerChannel |-> 0,
           channelPins |-> <<>>]

\* Init with the divisibility test left out
DQInit_NoDivisibilityCheck(d, totalPins, numChannels) ==
    IF numChannels = 0
    THEN [status |-> "panic", dq |-> d]
    ELSE LET w == GoDiv(totalPins, numChannels)
             d1 == [totalPins |-> totalPins, numChannels |-> numChannels,
                    pinsPerChannel |-> w, channelPins |-> <<>>]
         IN IF numChannels > 0 /\ w < 0
            THEN [status |-> "panic", dq |-> d1]
            ELSE [status |-> "ok",
                  dq |-> [d1 EXCEPT !.channelPins =
                            [ch \in 0..(numChannels - 1) |->
                                [i \in 1..w |-> ch * w + (i - 1)]]]]

\* Init(totalPins, numChannels): result [status, dq]; status is "ok", "error"
\* (an error is returned) or "panic" (division by zero, or make() of a
\* negative length)
DQInit(d, totalPins, numChannels) ==
    IF numChannels = 0
    THEN [status |-> "panic", dq |-> d]
    ELSE IF GoRem(totalPins, numChannels) # 0
    THEN [status |-> "error", dq |-> d]
    ELSE LET w == GoDiv(totalPins, numChannels)
             d1 == [totalPins |-> totalPins, numChannels |-> numChannels,
                    pinsPerChannel |-> w, channelPins |-> <<>>]
         IN IF numChannels > 0 /\ w < 0
            THEN [status |-> "panic", dq |-> d1]
            ELSE [status |-> "ok",
                  dq |-> [d1 EXCEPT !.channelPins =
                            [ch \in 0..(numChannels - 1) |->
                                [i \in 1..w |-> ch * w + (i - 1)]]]]

\* GetChannelPins(channelID) as a set of pin numbers
ChannelPinSet(d, ch) == {d.channelPins[ch][i] : i \in DOMAIN d.channelPins[ch]}

(***************************************************************************)
(* InterChipSwitch                                                         *)
(***************************************************************************)
\* the zero value of the struct (activeTransfers is a nil map)
IdleICS == [numChips |-> 0, activeTransfers |-> <<>>, nextTransferID |-> 0,
            totalTransfers |-> 0, totalBytes |-> 0, cycles |-> 0]

\* Init(numChips, totalDQPins, numChannels): result [status, ics, dq, cs]
ICSInit(numChips, totalDQPins, numChannels) ==
    LET s1 == [IdleICS EXCEPT !.numChips = numChips]
        r  == DQInit(IdleDQ, totalDQPins, numChannels)
    IN IF r.status # "ok"
       THEN [status |-> r.status, ics |-> s1, dq |-> r.dq, cs |-> CrossbarInit(0, 0)]
       ELSE IF numChips < 0
       THEN [status |-> "panic", ics |-> s1, dq |-> r.dq, cs |-> CrossbarInit(0, 0)]
       ELSE [status |-> "ok", ics |-> s1, dq |-> r.dq,
             cs |-> CrossbarInit(numChips, numChips)]

MapPut(f, k, v) == [x \in (DOMAIN f) \cup {k} |-> IF x = k THEN v ELSE f[x]]

MapDelete(f, k) == [x \in (DOMAIN f) \ {k} |-> f[x]]

\* StartTransfer taking the id before the crossbar is tried
ICSStartTransfer_IdBeforeConnect(s, cs, d, srcChip, dstChip, channelID, len) ==
    IF srcChip < 0 \/ srcChip >= s.numChips
    THEN [ok |-> FALSE, id |-> -1, ics |-> s, cs |-> cs]
    ELSE IF dstChip < 0 \/ dstChip >= s.numChips
    THEN [ok |-> FALSE, id |-> -1, ics |-> s, cs |-> cs]
    ELSE IF channelID < 0 \/ channelID >= d.numChannels
    THEN [ok |-> FALSE, id |-> -1, ics |-> s, cs |-> cs]
    ELSE LET c == CrossbarConnect(cs, srcChip, dstChip)
             s1 == [s EXCEPT !.nextTransferID = @ + 1]
         IN IF ~c.ok
            THEN [ok |-> FALSE, id |-> -1, ics |-> s1, cs |-> c.cs]
            ELSE LET transfer == [TransferID |-> s.nextTransferID,
                                  SrcChipID  |-> srcChip,
                                  DstChipID  |-> dstChip,
                                  ChannelID  |-> channelID,
                                  DataLen    |-> len,
                                  StartCycle |-> s.cycles,
                                  EndCycle   |-> -1]
                 IN [ok |-> TRUE, id |-> transfer.TransferID,
                     ics |-> [s1 EXCEPT
                                !.activeTransfers = MapPut(@, s.nextTransferID, transfer),
                                !.totalTransfers = @ + 1,
                                !.totalBytes = @ + len],
                     cs |-> c.cs]

\* StartTransfer numbering a transfer by the number of active transfers
ICSStartTransfer_IdFromActiveCount(s, cs, d, srcChip, dstChip, channelID, len) ==
    IF srcChip < 0 \/ srcChip >= s.numChips
    THEN [ok |-> FALSE, id |-> -1, ics |-> s, cs |-> cs]
    ELSE IF dstChip < 0 \/ dstChip >= s.numChips
    THEN [ok |-> FALSE, id |-> -1, ics |-> s, cs |-> cs]
    ELSE IF channelID < 0 \/ channelID >= d.numChannels
    THEN [ok |-> FALSE, id |-> -1, ics |-> s, cs |-> cs]
    ELSE LET c == CrossbarConnect(cs, srcChip, dstChip)
             newID == Cardinality(DOMAIN s.activeTransfers)
         IN IF ~c.ok
            THEN [ok |-> FALSE, id |-> -1, ics |-> s, cs |-> c.cs]
            ELSE LET transfer == [TransferID |-> newID,
                                  SrcChipID  |-> srcChip,
                                  DstChipID  |-> dstChip,
                                  ChannelID  |-> channelID,
                                  DataLen    |-> len,
                                  StartCycle |-> s.cycles,
                                  EndCycle   |-> -1]
                 IN [ok |-> TRUE, id |-> transfer.TransferID,
                     ics |-> [s EXCEPT
                                !.activeTransfers = MapPut(@, newID, transfer),
                                !.nextTransferID = @ + 1,
                                !.totalTransfers = @ + 1,
                                !.totalBytes = @ + len],
                     cs |-> c.cs]

\* StartTransfer(srcChip, dstChip, channelID, data): result [ok, id, ics, cs];
\* the payload is opaque to the switch, only len(data) is used
ICSStartTransfer(s, cs, d, srcChip, dstChip, channelID, len) ==
    IF srcChip < 0 \/ srcChip >= s.numChips
    THEN [ok |-> FALSE, id |-> -1, ics |-> s, cs |-> cs]
    ELSE IF dstChip < 0 \/ dstChip >= s.numChips
    THEN [ok |-> FALSE, id |-> -1, ics |-> s, cs |-> cs]
    ELSE IF channelID < 0 \/ channelID >= d.numChannels
    THEN [ok |-> FALSE, id |-> -1, ics |-> s, cs |-> cs]
    ELSE LET c == CrossbarConnect(cs, srcChip, dstChip)
         IN IF ~c.ok
            THEN [ok |-> FALSE, id |-> -1, ics |-> s, cs |-> c.cs]
            ELSE LET transfer == [TransferID |-> s.nextTransferID,
                                  SrcChipID  |-> srcChip,
                                  DstChipID  |-> dstChip,
                                  ChannelID  |-> channelID,
                                  DataLen    |-> len,
                                  StartCycle |-> s.cycles,
                                  EndCycle   |-> -1]
                 IN [ok |-> TRUE, id |-> transfer.TransferID,
                     ics |-> [s EXCEPT
                                !.activeTransfers = MapPut(@, s.nextTransferID, transfer),
                                !.nextTransferID = @ + 1,
                                !.totalTransfers = @ + 1,
                                !.totalBytes = @ + len],
                     cs |-> c.cs]

\* CompleteTransfer(transferID): result [ok, ics, cs]
ICSCompleteTransfer(s, cs, transferID) ==
    IF transferID \notin DOMAIN s.activeTransfers
    THEN [ok |-> FALSE, ics |-> s, cs |-> cs]
    ELSE LET transfer == s.activeTransfers[transferID]
         IN [ok |-> TRUE,
             ics |-> [s EXCEPT !.activeTransfers = MapDelete(@, transferID)],
             cs |-> CrossbarDisconnect(cs, transfer.SrcChipID)]

\* Cycle as the module documentation describes it: transfers complete by themselves
ICSCycle_AutoComplete(s, cs) ==
    [ics |-> [s EXCEPT !.cycles = @ + 1, !.activeTransfers = <<>>],
     cs |-> CrossbarCycle(CrossbarDisconnectAll(cs))]

\* Cycle(): result [ics, cs]
ICSCycle(s, cs) ==
    [ics |-> [s EXCEPT !.cycles = @ + 1], cs |-> CrossbarCycle(cs)]

(***************************************************************************)
(* InterRankControlQ.  A message is [SourceRank, DestinationRank, DataLen, *)
(* Timestamp, MessageID]: the payload is opaque to the queue, which uses   *)
(* only len(msg.Data).  makeKey(ch, r) = "ch-r" is injective on pairs of   *)
(* integers, so a bucket key is the pair <<ch, r>>.                        *)
(***************************************************************************)
BufferSize == 128

BROADCAST == -1     \* DestinationRank of a broadcast message

makeKey(channelID, rankID) == <<channelID, rankID>>

\* the zero value of the struct (nil queue, nil map)
ZeroIRQ ==
    [ numChannels |-> 0, numRanks |-> 0, busWidth |-> 0, bandwidth |-> 0,
      bufferSize |-> 0, messageQueue |-> <<>>, pendingMessages |-> <<>>,
      totalMessages |-> 0, totalBroadcasts |-> 0, totalBytesTransferred |-> 0,
      cycles |-> 0, messageIDCounter |-> 0 ]

NoLedger == [sent |-> <<>>, taken |-> <<>>]

IRQIdle == irq = ZeroIRQ /\ readResult = <<>> /\ delivered = <<>> /\ ledger = NoLedger

\* Init that does not look at the bus width
IRQInit_AnyBusWidth(q, numChannels, numRanks, busWidth, bandwidth) ==
    IF numChannels <= 0 \/ numRanks <= 0
    THEN [status |-> "panic", irq |-> q]
    ELSE [status |-> "ok",
          irq |-> [ numChannels |-> numChannels, numRanks |-> numRanks,
                    busWidth |-> busWidth, bandwidth |-> bandwidth,
                    bufferSize |-> BufferSize,
                    messageQueue |-> <<>>,
                    pendingMessages |->
                        [k \in {makeKey(ch, r) : ch \in 0..(numChannels - 1),
                                                 r \in 0..(numRanks - 1)} |-> <<>>],
                    totalMessages |-> 0, totalBroadcasts |-> 0,
                    totalBytesTransferred |-> 0, cycles |-> 0,
                    messageIDCounter |-> 0 ]]

\* Init(numChannels, numRanks, busWidth, bandwidth): result [status, irq]
IRQInit(q, numChannels, numRanks, busWidth, bandwidth) ==
    IF numChannels <= 0 \/ numRanks <= 0 \/ busWidth <= 0
    THEN [status |-> "panic", irq |-> q]
    ELSE [status |-> "ok",
          irq |-> [ numChannels |-> numChannels, numRanks |-> numRanks,
                    busWidth |-> busWidth, bandwidth |-> bandwidth,
                    bufferSize |-> BufferSize,
                    messageQueue |-> <<>>,
                    pendingMessages |->
                        [k \in {makeKey(ch, r) : ch \in 0..(numChannels - 1),
                                                 r \in 0..(numRanks - 1)} |-> <<>>],
                    totalMessages |-> 0, totalBroadcasts |-> 0,
                    totalBytesTransferred |-> 0, cycles |-> 0,
                    messageIDCounter |-> 0 ]]

\* validateRankCoordinates: TRUE when no error is returned
validateRankCoordinates(q, channelID, rankID) ==
    /\ ~(channelID < 0 \/ channelID >= q.numChannels)
    /\ ~(rankID < 0 \/ rankID >= q.numRanks)

\* Broadcast that lets the queue grow one message past bufferSize
IRQBroadcast_OffByOne(q, channelID, sourceRank, len) ==
    IF ~validateRankCoordinates(q, channelID, sourceRank)
    THEN [err |-> "invalid", irq |-> q]
    ELSE IF Len(q.messageQueue) > q.bufferSize
    THEN [err |-> "full", irq |-> q]
    ELSE LET msg == [SourceRank |-> sourceRank, DestinationRank |-> BROADCAST,
                     DataLen |-> len, Timestamp |-> q.cycles,
                     MessageID |-> q.messageIDCounter]
         IN [err |-> "",
             irq |-> [q EXCEPT !.messageIDCounter = @ + 1,
                               !.messageQueue = Append(@, msg),
                               !.totalMessages = @ + 1,
                               !.totalBroadcasts = @ + 1,
                               !.totalBytesTransferred = @ + len]]

\* Broadcast(channelID, sourceRank, data): result [err, irq]
IRQBroadcast(q, channelID, sourceRank, len) ==
    IF ~validateRankCoordinates(q, channelID, sourceRank)
    THEN [err |-> "invalid", irq |-> q]
    ELSE IF Len(q.messageQueue) >= q.bufferSize
    THEN [err |-> "full", irq |-> q]
    ELSE LET msg == [SourceRank |-> sourceRank, DestinationRank |-> BROADCAST,
                     DataLen |-> len, Timestamp |-> q.cycles,
                     MessageID |-> q.messageIDCounter]
         IN [err |-> "",
             irq |-> [q EXCEPT !.messageIDCounter = @ + 1,
                               !.messageQueue = Append(@, msg),
                               !.totalMessages = @ + 1,
                               !.totalBroadcasts = @ + 1,
                               !.totalBytesTransferred = @ + len]]

\* SendPointToPoint that looks at the room in the queue before the coordinates
IRQSendPointToPoint_FullBeforeRange(q, srcChannelID, srcRank, dstChannelID, dstRank, len) ==
    IF Len(q.messageQueue) >= q.bufferSize
    THEN [err |-> "full", irq |-> q]
    ELSE IF ~validateRankCoordinates(q, srcChannelID, srcRank)
    THEN [err |-> "invalid source", irq |-> q]
    ELSE IF ~validateRankCoordinates(q, dstChannelID, dstRank)
    THEN [err |-> "invalid destination", irq |-> q]
    ELSE LET msg == [SourceRank |-> srcRank, DestinationRank |-> dstRank,
                     DataLen |-> len, Timestamp |-> q.cycles,
                     MessageID |-> q.messageIDCounter]
         IN [err |-> "",
             irq |-> [q EXCEPT !.messageIDCounter = @ + 1,
                               !.messageQueue = Append(@, msg),
                               !.totalMessages = @ + 1,
                               !.totalBytesTransferred = @ + len]]

\* SendPointToPoint(srcChannelID, srcRank, dstChannelID, dstRank, data)
IRQSendPointToPoint(q, srcChannelID, srcRank, dstChannelID, dstRank, len) ==
    IF ~validateRankCoordinates(q, srcChannelID, srcRank)
    THEN [err |-> "invalid source", irq |-> q]
    ELSE IF ~validateRankCoordinates(q, dstChannelID, dstRank)
    THEN [err |-> "invalid destination", irq |-> q]
    ELSE IF Len(q.messageQueue) >= q.bufferSize
    THEN [err |-> "full", irq |-> q]
    ELSE LET msg == [SourceRank |-> srcRank, DestinationRank |-> dstRank,
                     DataLen |-> len, Timestamp |-> q.cycles,
                     MessageID |-> q.messageIDCounter]
         IN [err |-> "",
             irq |-> [q EXCEPT !.messageIDCounter = @ + 1,
                               !.messageQueue = Append(@, msg),
                               !.totalMessages = @ + 1,
                               !.totalBytesTransferred = @ + len]]

\* pendingMessages[key], the nil slice when the key is absent
Bucket(pm, key) == IF key \in DOMAIN pm THEN pm[key] ELSE <<>>

\* a delivery that puts the message at the head of the bucket
AppendTo_AtHead(pm, keys, msg) ==
    [k \in (DOMAIN pm) \cup keys |->
        IF k \in keys THEN <<msg>> \o Bucket(pm, k) ELSE pm[k]]

AppendTo(pm, keys, msg) ==
    [k \in (DOMAIN pm) \cup keys |->
        IF k \in keys THEN Append(Bucket(pm, k), msg) ELSE pm[k]]

\* delivery that does not leave out the source rank
IRQDeliver_IncludeSource(q, pm, msg) ==
    IF msg.DestinationRank = BROADCAST
    THEN AppendTo(pm, {makeKey(ch, rank) : ch \in 0..(q.numChannels - 1),
                                           rank \in 0..(q.numRanks - 1)}, msg)
    ELSE AppendTo(pm, {makeKey(ch, msg.DestinationRank) :
                          ch \in 0..(q.numChannels - 1)}, msg)

\* delivery of a unicast message into the bucket of channel 0 only
IRQDeliver_UnicastOneChannel(q, pm, msg) ==
    IF msg.DestinationRank = BROADCAST
    THEN AppendTo(pm, {makeKey(ch, rank) : ch \in 0..(q.numChannels - 1),
                                           rank \in {r \in 0..(q.numRanks - 1) :
                                                        r # msg.SourceRank}}, msg)
    ELSE AppendTo(pm, {makeKey(0, msg.DestinationRank)}, msg)

\* the delivery of one message in Cycle: the buckets it is appended to
IRQDeliver(q, pm, msg) ==
    IF msg.DestinationRank = BROADCAST
    THEN AppendTo(pm, {makeKey(ch, rank) : ch \in 0..(q.numChannels - 1),
                                           rank \in {r \in 0..(q.numRanks - 1) :
                                                        r # msg.SourceRank}}, msg)
    ELSE AppendTo(pm, {makeKey(ch, msg.DestinationRank) :
                          ch \in 0..(q.numChannels - 1)}, msg)

\* the loop of Cycle from index i (0-based) with bytesProcessed = bytes:
\* result [n, pm], n being messagesProcessed
RECURSIVE IRQDrain(_, _, _, _)
IRQDrain(q, i, bytes, pm) ==
    IF i < Len(q.messageQueue) /\ bytes < q.bandwidth
    THEN LET msg == q.messageQueue[i + 1]
             messageSize == msg.DataLen
         IN IF bytes + messageSize <= q.bandwidth
            THEN IRQDrain(q, i + 1, bytes + messageSize, IRQDeliver(q, pm, msg))
            ELSE [n |-> i, pm |-> pm]
    ELSE [n |-> i, pm |-> pm]

\* a Cycle that delivers but leaves the delivered messages in the queue
IRQCycle_KeepsQueue(q) ==
    LET q1 == [q EXCEPT !.cycles = @ + 1]
        r  == IRQDrain(q1, 0, 0, q1.pendingMessages)
    IN [q1 EXCEPT !.pendingMessages = r.pm]

\* a Cycle that lets one byte more than the bandwidth through
IRQCycle_OneByteOver(q) ==
    LET q1 == [q EXCEPT !.cycles = @ + 1]
        r  == IRQDrain([q1 EXCEPT !.bandwidth = @ + 1], 0, 0, q1.pendingMessages)
    IN [q1 EXCEPT !.pendingMessages = r.pm,
                  !.messageQueue = IF r.n > 0
                                   THEN SubSeq(@, r.n + 1, Len(@))
                                   ELSE @]

\* Cycle()
IRQCycle(q) ==
    LET q1 == [q EXCEPT !.cycles = @ + 1]
        r  == IRQDrain(q1, 0, 0, q1.pendingMessages)
    IN [q1 EXCEPT !.pendingMessages = r.pm,
                  !.messageQueue = IF r.n > 0
                                   THEN SubSeq(@, r.n + 1, Len(@))
                                   ELSE @]

\* Read that returns the bucket and leaves it as it was
IRQRead_KeepsBucket(q, channelID, rank) ==
    IF ~validateRankCoordinates(q, channelID, rank)
    THEN [err |-> "invalid", msgs |-> <<>>, irq |-> q]
    ELSE LET key == makeKey(channelID, rank)
         IN [err |-> "", msgs |-> Bucket(q.pendingMessages, key), irq |-> q]

\* Read(channelID, rank): result [err, msgs, irq]
IRQRead(q, channelID, rank) ==
    IF ~validateRankCoordinates(q, channelID, rank)
    THEN [err |-> "invalid", msgs |-> <<>>, irq |-> q]
    ELSE LET key == makeKey(channelID, rank)
         IN [err |-> "", msgs |-> Bucket(q.pendingMessages, key),
             irq |-> [q EXCEPT !.pendingMessages = MapPut(@, key, <<>>)]]

\* GetPendingCount(channelID, rank): result [err, count]
IRQGetPendingCount(q, channelID, rank) ==
    IF ~validateRankCoordinates(q, channelID, rank)
    THEN [err |-> "invalid", count |-> 0]
    ELSE [err |-> "", count |-> Len(Bucket(q.pendingMessages, makeKey(channelID, rank)))]

\* Clear that empties the bucket of channel 0 whatever channel is given
IRQClear_ChannelZero(q, channelID, rank) ==
    [q EXCEPT !.pendingMessages = MapPut(@, makeKey(0, rank), <<>>)]

\* Clear(channelID, rank): no validation of the coordinates
IRQClear(q, channelID, rank) ==
    [q EXCEPT !.pendingMessages = MapPut(@, makeKey(channelID, rank), <<>>)]

IRQIsEmpty(q) == Len(q.messageQueue) = 0

\* the bucket key is one of those Init creates
InGrid(q, key) ==
    /\ key[1] \in 0..(q.numChannels - 1)
    /\ key[2] \in 0..(q.numRanks - 1)

\* the message m is delivered into the bucket key of the queue q
Targets(q, m, key) ==
    /\ InGrid(q, key)
    /\ IF m.DestinationRank = BROADCAST
       THEN key[2] # m.SourceRank
       ELSE key[2] = m.DestinationRank

\* History of the deliveries: for every bucket of the grid, the number of
\* messages Cycle has put into it since the bucket was last read or cleared.
\* op is the call just made, q the queue object before it and q2 after it.
TrackDelivered(d, op, q, q2) ==
    IF op.op = "QueueCycle"
    THEN LET n == Len(q.messageQueue) - Len(q2.messageQueue)
         IN [key \in DOMAIN d |->
                d[key] + Cardinality({i \in 1..n : Targets(q, q.messageQueue[i], key)})]
    ELSE IF op.op \in {"Read", "Clear"} /\ op.ok /\ <<op.a, op.b>> \in DOMAIN d
    THEN [d EXCEPT ![<<op.a, op.b>>] = 0]
    ELSE d

(***************************************************************************)
(* RingTopology (collective/ring, src/unnamed/part_000).  An int64 is a    *)
(* two's complement word of WordBits bits, since the integers of TLC have  *)
(* 32 bits: + and * wrap around as they do in Go.  A slice indexed by a    *)
(* node id is a sequence, node i at place i + 1.  The mesh network is not  *)
(* part of this model: what InjectPacket and RunUntilEmpty return is an    *)
(* input of the round.                                                     *)
(***************************************************************************)
SUM == 0
MAX == 1
MIN == 2
PROD == 3

Modulus == 2 ^ WordBits

MaxWord == (Modulus \div 2) - 1

MinWord == 0 - (Modulus \div 2)

\* the int64 that Go's + and * give for the mathematical result x
Wrap(x) == ((x - MinWord) % Modulus) + MinWord

\* a reduction whose MAX and MIN return the second operand
ApplyReduce_TakesSecond(op, a, b) ==
    CASE op = SUM  -> Wrap(a + b)
      [] op = MAX  -> b
      [] op = MIN  -> b
      [] op = PROD -> Wrap(a * b)
      [] OTHER     -> Wrap(a + b)

ApplyReduce(op, a, b) ==
    CASE op = SUM  -> Wrap(a + b)
      [] op = MAX  -> IF a > b THEN a ELSE b
      [] op = MIN  -> IF a < b THEN a ELSE b
      [] op = PROD -> Wrap(a * b)
      [] OTHER     -> Wrap(a + b)

\* the zero value of the struct
ZeroRing == [numNodes |-> 0, nodePositions |-> <<>>, totalMessages |-> 0,
             totalLatency |-> 0, cycles |-> 0]

\* Init: result [status, rt]; make() panics on a negative length
RingInit(rt, numNodes) ==
    IF numNodes < 0
    THEN [status |-> "panic", rt |-> [rt EXCEPT !.numNodes = numNodes]]
    ELSE [status |-> "ok",
          rt |-> [rt EXCEPT !.numNodes = numNodes,
                            !.nodePositions = [i \in 1..numNodes |->
                                                  [x |-> GoDiv(i - 1, 8), y |-> GoRem(i - 1, 8)]]]]

\* a ring whose nodes are two apart
GetNextNode_TwoApart(rt, nodeID) == GoRem(nodeID + 2, rt.numNodes)

GetNextNode(rt, nodeID) == GoRem(nodeID + 1, rt.numNodes)

\* a GetPrevNode that names the node itself
GetPrevNode_Self(rt, nodeID) == GoRem(nodeID + rt.numNodes, rt.numNodes)

GetPrevNode(rt, nodeID) == GoRem(nodeID - 1 + rt.numNodes, rt.numNodes)

\* an InjectPacket call between the positions of two nodes, and whether the
\* network took the packet
InjectCall(nodePositions, nodeID, nextNode, injected) ==
    [srcX |-> nodePositions[nodeID + 1].x, srcY |-> nodePositions[nodeID + 1].y,
     dstX |-> nodePositions[nextNode + 1].x, dstY |-> nodePositions[nextNode + 1].y,
     ok |-> injected]

\* a SendToNext that counts the message before it looks at the error
SendToNext_CountsRefused(rt, nodeID, injected) ==
    LET nextNode == GetNextNode(rt, nodeID)
        calls == <<InjectCall(rt.nodePositions, nodeID, nextNode, injected)>>
    IN [err |-> IF injected THEN "" ELSE "send",
        rt |-> [rt EXCEPT !.totalMessages = @ + 1], calls |-> calls]

\* SendToNext: result [err, rt, calls]; injected tells whether InjectPacket
\* took the packet for the next node, calls is the InjectPacket call made
SendToNext(rt, nodeID, injected) ==
    LET nextNode == GetNextNode(rt, nodeID)
        calls == <<InjectCall(rt.nodePositions, nodeID, nextNode, injected)>>
    IN IF ~injected
       THEN [err |-> "send", rt |-> rt, calls |-> calls]
       ELSE [err |-> "", rt |-> [rt EXCEPT !.totalMessages = @ + 1], calls |-> calls]

\* the send loop of a round from nodeID on: every node sends its value to the
\* next node, and the first error ends the call; failAt is the node whose
\* packet the network refuses (numNodes when it refuses none)
RECURSIVE SendAll(_, _, _)
SendAll(rt, nodeID, failAt) ==
    IF nodeID >= rt.numNodes
    THEN [err |-> "", rt |-> rt, calls |-> <<>>]
    ELSE LET r == SendToNext(rt, nodeID, nodeID # failAt)
         IN IF r.err # ""
            THEN r
            ELSE LET rest == SendAll(r.rt, nodeID + 1, failAt)
                 IN [rest EXCEPT !.calls = r.calls \o @]

\* the receive loop of a reduce-scatter round from nodeID on, on the slice
\* itself: a node reads what its predecessor holds at that moment
RECURSIVE ReduceFromPrev(_, _, _, _)
ReduceFromPrev(rt, nodeValues, nodeID, op) ==
    IF nodeID >= rt.numNodes
    THEN nodeValues
    ELSE LET prevValue == nodeValues[GetPrevNode(rt, nodeID) + 1]
         IN ReduceFromPrev(rt,
                [nodeValues EXCEPT ![nodeID + 1] = ApplyReduce(op, @, prevValue)],
                nodeID + 1, op)

\* the receive loop of an all-gather round from nodeID on, on the slice itself
RECURSIVE TakeFromPrev(_, _, _, _)
TakeFromPrev(rt, nodeValues, nodeID, step) ==
    IF nodeID >= rt.numNodes
    THEN nodeValues
    ELSE LET prevValue == nodeValues[GetPrevNode(rt, nodeID) + 1]
         IN TakeFromPrev(rt,
                IF step = 0 \/ nodeValues[nodeID + 1] = prevValue
                THEN [nodeValues EXCEPT ![nodeID + 1] = prevValue]
                ELSE nodeValues,
                nodeID + 1, step)

\* the send loop of a round of RingAllReduceSimple from nodeID on: the error
\* of SendToNext is dropped, and the loop goes on
RECURSIVE SendAllUnchecked(_, _, _)
SendAllUnchecked(rt, nodeID, failAt) ==
    IF nodeID >= rt.numNodes
    THEN [err |-> "", rt |-> rt, calls |-> <<>>]
    ELSE LET r == SendToNext(rt, nodeID, nodeID # failAt)
             rest == SendAllUnchecked(r.rt, nodeID + 1, failAt)
         IN [rest EXCEPT !.calls = r.calls \o @]

\* the loop totalSum += val of RingAllReduceSimple over the values from
\* index i on
RECURSIVE SumLoop(_, _, _)
SumLoop(initialValues, i, totalSum) ==
    IF i > Len(initialValues) THEN totalSum
    ELSE SumLoop(initialValues, i + 1, Wrap(totalSum + initialValues[i]))

\* the receive loop of a round of RingAllReduceSimple: newValues, built from
\* the values of the round before
SimpleRound(rt, currentValues, op) ==
    [i \in 1..rt.numNodes |->
        ApplyReduce(op, currentValues[i], currentValues[GetPrevNode(rt, i - 1) + 1])]

\* currentValues after steps more rounds
RECURSIVE SimpleRounds(_, _, _, _)
SimpleRounds(rt, currentValues, op, steps) ==
    IF steps <= 0 THEN currentValues
    ELSE SimpleRounds(rt, SimpleRound(rt, currentValues, op), op, steps - 1)

\* what RingAllReduceSimple returns: result [status, err, value]; the index
\* currentValues[0] panics on a ring of no nodes
RingAllReduceSimple(rt, initialValues, op) ==
    IF Len(initialValues) # rt.numNodes
    THEN [status |-> "ok", err |-> "length", value |-> 0]
    ELSE IF op = SUM
    THEN [status |-> "ok", err |-> "", value |-> SumLoop(initialValues, 1, 0)]
    ELSE IF rt.numNodes = 0
    THEN [status |-> "panic", err |-> "", value |-> 0]
    ELSE [status |-> "ok", err |-> "",
          value |-> SimpleRounds(rt, initialValues, op, rt.numNodes - 1)[1]]

\* the frame of a RingAllReduce call: no call yet
NoRun == [phase |-> "idle", op |-> SUM, step |-> 0, initialValues |-> <<>>,
          nodeValues |-> <<>>, result |-> <<>>, err |-> ""]

\* the mesh network as the collectives see it: the InjectPacket calls of the
\* latest round, the packets taken so far, the rounds started, the
\* RunUntilEmpty calls made, and the rounds that went wrong (a packet
\* refused, or RunUntilEmpty returning false)
NoNet == [calls |-> <<>>, injected |-> 0, rounds |-> 0, runs |-> 0, failed |-> 0]

\* the packets the network took among the InjectPacket calls
Taken(calls) == SelectSeq(calls, LAMBDA c : c.ok)

\* the network after a round; ran tells whether the round went on to call
\* RunUntilEmpty, drained what that call returned
NetRound(n, calls, ran, drained) ==
    [calls |-> calls,
     injected |-> n.injected + Len(Taken(calls)),
     rounds |-> n.rounds + 1,
     runs |-> n.runs + (IF ran THEN 1 ELSE 0),
     failed |-> n.failed + (IF Len(Taken(calls)) = Len(calls) /\ ran /\ drained
                            THEN 0 ELSE 1)]

\* the zero value of the ReduceScatterTopology struct
ZeroRST == [numNodes |-> 0, nodePositions |-> <<>>, totalMessages |-> 0, cycles |-> 0]

\* the frame of a ReduceScatterTopology call: no call yet
NoRSCall == [method |-> "none", phase |-> "idle", op |-> SUM, step |-> 0,
             input |-> <<>>, data |-> <<>>, result |-> <<>>, err |-> ""]

\* an int64 is kept as the set of the positions of its one bits in two's
\* complement, bit Int64Bits - 1 being the sign; a byte is a number 0..255
Int64Bits == 64

ByteBits == 8

BytesPerInt64 == Int64Bits \div ByteBits

\* val >> n on an int64: the arithmetic shift, which copies the sign bit in
ShiftRight(val, n) ==
    {b - n : b \in {c \in val : c >= n}}
        \cup (IF (Int64Bits - 1) \in val THEN (Int64Bits - n)..(Int64Bits - 1) ELSE {})

\* val << n on an int64: the bits pushed past the sign bit are lost
ShiftLeft(val, n) == {b + n : b \in {c \in val : c + n < Int64Bits}}

\* byte(val): the low eight bits, as a number
ToByte(val) ==
    LET bit(b) == IF b \in val THEN 2 ^ b ELSE 0
    IN bit(0) + bit(1) + bit(2) + bit(3) + bit(4) + bit(5) + bit(6) + bit(7)

\* a conversion of a byte that takes it for a signed one
ByteToInt64_SignExtended(byte) ==
    {b \in 0..(ByteBits - 1) : (byte \div (2 ^ b)) % 2 = 1}
        \cup (IF byte >= 2 ^ (ByteBits - 1) THEN ByteBits..(Int64Bits - 1) ELSE {})

\* int64(data[i]): the byte zero-extended
ByteToInt64(byte) == {b \in 0..(ByteBits - 1) : (byte \div (2 ^ b)) % 2 = 1}

\* encodeInt64: the eight bytes of val, lowest first
encodeInt64(val) ==
    [i \in 1..BytesPerInt64 |-> ToByte(ShiftRight(val, (i - 1) * ByteBits))]

\* decodeInt64: 0 for fewer than eight bytes, else the first eight bytes
\* or-ed together, each shifted to its place
decodeInt64(data) ==
    IF Len(data) < BytesPerInt64
    THEN {}
    ELSE UNION {ShiftLeft(ByteToInt64(data[i + 1]), i * ByteBits) :
                    i \in 0..(BytesPerInt64 - 1)}

\* encodeInt64Array: byte i*8+j of the result is byte j of values[i]
encodeInt64Array(values) ==
    [k \in 1..(Len(values) * BytesPerInt64) |->
        ToByte(ShiftRight(values[((k - 1) \div BytesPerInt64) + 1],
                          ((k - 1) % BytesPerInt64) * ByteBits))]

\* decodeInt64Array: result [isNil, values]; nil when the length is not a
\* multiple of eight
decodeInt64Array(data) ==
    IF Len(data) % BytesPerInt64 # 0
    THEN [isNil |-> TRUE, values |-> <<>>]
    ELSE [isNil |-> FALSE,
          values |-> [i \in 1..(Len(data) \div BytesPerInt64) |->
                         UNION {ShiftLeft(ByteToInt64(data[(i - 1) * BytesPerInt64 + j + 1]),
                                          j * ByteBits) :
                                    j \in 0..(BytesPerInt64 - 1)}]]

\* the codec calls made so far: none
NoCodec == [op |-> "none", val |-> {}, values |-> <<>>, data |-> <<>>,
            out |-> {}, outs |-> <<>>, isNil |-> FALSE, whole |-> FALSE]

RingIdle ==
    /\ ring = ZeroRing /\ allReduce = NoRun
    /\ rst = ZeroRST /\ rsCall = NoRSCall
    /\ net = NoNet
    /\ codec = NoCodec

(***************************************************************************)
(* ReduceScatterTopology (collective, src/unnamed/part_001).  A matrix is  *)
(* the sequence of its rows, the row of node i at place i + 1.             *)
(***************************************************************************)
\* Init: result [status, rst]; make() panics on a negative length
RSTInit(t, numNodes) ==
    IF numNodes < 0
    THEN [status |-> "panic", rst |-> [t EXCEPT !.numNodes = numNodes]]
    ELSE [status |-> "ok",
          rst |-> [t EXCEPT !.numNodes = numNodes,
                            !.nodePositions = [i \in 1..numNodes |->
                                                  [x |-> GoDiv(i - 1, 8), y |-> GoRem(i - 1, 8)]]]]

\* ReduceScatter before its loop: "" when the input passes the checks, the
\* error returned, or "panic" (initialData[0] of an empty slice)
RSCheck(t, initialData) ==
    IF Len(initialData) # t.numNodes THEN "length"
    ELSE IF Len(initialData) = 0 THEN "panic"
    ELSE IF \E i \in 2..t.numNodes : Len(initialData[i]) # Len(initialData[1]) THEN "row"
    ELSE ""

\* the send loop of a ReduceScatter round from nodeID on: result
\* [err, rst, calls]; the first packet the network refuses ends the call
RECURSIVE RSSendAll(_, _, _)
RSSendAll(t, nodeID, failAt) ==
    IF nodeID >= t.numNodes
    THEN [err |-> "", rst |-> t, calls |-> <<>>]
    ELSE LET nextNode == GoRem(nodeID + 1, t.numNodes)
             calls == <<InjectCall(t.nodePositions, nodeID, nextNode, nodeID # failAt)>>
         IN IF nodeID = failAt
            THEN [err |-> "send", rst |-> t, calls |-> calls]
            ELSE LET rest == RSSendAll([t EXCEPT !.totalMessages = @ + 1], nodeID + 1, failAt)
                 IN [rest EXCEPT !.calls = calls \o @]

\* the send loop of a round of ReduceScatterSimple and of AllGather, which do
\* not look at what InjectPacket returns
RECURSIVE RSSendAllUnchecked(_, _, _)
RSSendAllUnchecked(t, nodeID, failAt) ==
    IF nodeID >= t.numNodes
    THEN [err |-> "", rst |-> t, calls |-> <<>>]
    ELSE LET nextNode == GoRem(nodeID + 1, t.numNodes)
             calls == <<InjectCall(t.nodePositions, nodeID, nextNode, nodeID # failAt)>>
             rest == RSSendAllUnchecked([t EXCEPT !.totalMessages = @ + 1], nodeID + 1, failAt)
         IN [rest EXCEPT !.calls = calls \o @]

\* the receive loop of a ReduceScatter round: newData, built from the data of
\* the round before
RSReduceRound(t, data, op) ==
    [n \in 1..t.numNodes |->
        LET prevNode == GoRem((n - 1) - 1 + t.numNodes, t.numNodes)
        IN [i \in 1..Len(data[1]) |-> ApplyReduce(op, data[n][i], data[prevNode + 1][i])]]

\* ReduceScatter after its loop: result [status, result]; result[nodeID] =
\* initialData[nodeID][nodeID] panics on a row that is too short
RSExtract(t, data) ==
    IF \E n \in 1..t.numNodes : Len(data[n]) < n
    THEN [status |-> "panic", result |-> <<>>]
    ELSE [status |-> "ok", result |-> [n \in 1..t.numNodes |-> data[n][n]]]

\* ReduceScatterSimple, the reduction of column chunkIdx from node nodeID on
RECURSIVE ColumnFold(_, _, _, _, _, _)
ColumnFold(t, initialData, op, chunkIdx, nodeID, reducedValue) ==
    IF nodeID >= t.numNodes
    THEN reducedValue
    ELSE ColumnFold(t, initialData, op, chunkIdx, nodeID + 1,
                    IF op = SUM
                    THEN Wrap(reducedValue + initialData[nodeID + 1][chunkIdx + 1])
                    ELSE ApplyReduce(op, reducedValue, initialData[nodeID + 1][chunkIdx + 1]))

\* ReduceScatterSimple before its rounds: result [err, status, result]
RSSimpleReduce(t, initialData, op) ==
    IF Len(initialData) # t.numNodes
    THEN [err |-> "length", status |-> "ok", result |-> <<>>]
    ELSE IF Len(initialData) = 0
    THEN [err |-> "", status |-> "panic", result |-> <<>>]
    ELSE LET chunkSize == Len(initialData[1])
         IN IF chunkSize > 0 /\ \E n \in 1..t.numNodes : Len(initialData[n]) < chunkSize
            THEN [err |-> "", status |-> "panic", result |-> <<>>]
            ELSE [err |-> "", status |-> "ok",
                  result |-> [c \in 1..t.numNodes |->
                                 IF c - 1 >= chunkSize THEN 0
                                 ELSE IF op = SUM
                                 THEN ColumnFold(t, initialData, op, c - 1, 0, 0)
                                 ELSE ColumnFold(t, initialData, op, c - 1, 1,
                                                 initialData[1][c])]]

\* an AllGather that gives every node its own value in every position
AllGatherCopy_OwnValue(t, initialValues) ==
    IF Len(initialValues) # t.numNodes
    THEN [err |-> "length", result |-> <<>>]
    ELSE [err |-> "",
          result |-> [i \in 1..t.numNodes |-> [j \in 1..t.numNodes |-> initialValues[i]]]]

\* AllGather before its rounds: result [err, result]
AllGatherCopy(t, initialValues) ==
    IF Len(initialValues) # t.numNodes
    THEN [err |-> "length", result |-> <<>>]
    ELSE [err |-> "",
          result |-> [i \in 1..t.numNodes |-> [j \in 1..t.numNodes |-> initialValues[j]]]]

(***************************************************************************)
(* The bodies of the InterRankControlQ methods in the steps a thread takes *)
(* between irq.mu.Lock() and the deferred irq.mu.Unlock()                  *)
(***************************************************************************)
\* a mutex whose Lock() never waits
CanLock_NeverWaits(m, rd) == TRUE

\* sync.RWMutex: Lock() returns when no writer and no reader holds the mutex
CanLock(m, rd) == m = 0 /\ rd = {}

\* sync.RWMutex: RLock() returns when no writer holds the mutex
CanRLock(m, rd) == m = 0

\* Broadcast, the checks before the message is built: the error returned
IRQBroadcastCheck(q, channelID, sourceRank) ==
    IF ~validateRankCoordinates(q, channelID, sourceRank) THEN "invalid"
    ELSE IF Len(q.messageQueue) >= q.bufferSize THEN "full"
    ELSE ""

\* SendPointToPoint, the checks before the message is built
IRQSendCheck(q, srcChannelID, srcRank, dstChannelID, dstRank) ==
    IF ~validateRankCoordinates(q, srcChannelID, srcRank) THEN "invalid source"
    ELSE IF ~validateRankCoordinates(q, dstChannelID, dstRank) THEN "invalid destination"
    ELSE IF Len(q.messageQueue) >= q.bufferSize THEN "full"
    ELSE ""

\* Broadcast and SendPointToPoint after the checks: the message is built and
\* put on the queue; destinationRank is BROADCAST for Broadcast
IRQEnqueue(q, sourceRank, destinationRank, len) ==
    LET msg == [SourceRank |-> sourceRank, DestinationRank |-> destinationRank,
                DataLen |-> len, Timestamp |-> q.cycles,
                MessageID |-> q.messageIDCounter]
    IN [q EXCEPT !.messageIDCounter = @ + 1,
                 !.messageQueue = Append(@, msg),
                 !.totalMessages = @ + 1,
                 !.totalBroadcasts = IF destinationRank = BROADCAST THEN @ + 1 ELSE @,
                 !.totalBytesTransferred = @ + len]

\* Cycle up to the end of its loop: result [n, irq], n being messagesProcessed
IRQCycleDeliver(q) ==
    LET q1 == [q EXCEPT !.cycles = @ + 1]
        r  == IRQDrain(q1, 0, 0, q1.pendingMessages)
    IN [n |-> r.n, irq |-> [q1 EXCEPT !.pendingMessages = r.pm]]

\* Cycle, irq.messageQueue = irq.messageQueue[messagesProcessed:], which
\* panics when the queue has become shorter than messagesProcessed
IRQCycleTruncate(q, n) ==
    IF n > Len(q.messageQueue)
    THEN [status |-> "panic", irq |-> q]
    ELSE [status |-> "ok",
          irq |-> [q EXCEPT !.messageQueue = IF n > 0 THEN SubSeq(@, n + 1, Len(@)) ELSE @]]

\* Read up to the copy of the bucket: result [err, msgs]
IRQReadCopy(q, channelID, rank) ==
    IF ~validateRankCoordinates(q, channelID, rank)
    THEN [err |-> "invalid", msgs |-> <<>>]
    ELSE [err |-> "", msgs |-> Bucket(q.pendingMessages, makeKey(channelID, rank))]

\* Read, irq.pendingMessages[key] = make([]*InterRankMessage, 0)
IRQReadReset(q, channelID, rank) ==
    [q EXCEPT !.pendingMessages = MapPut(@, makeKey(channelID, rank), <<>>)]

(***************************************************************************)
(* Stand-alone crossbar driven by one caller                               *)
(***************************************************************************)
XbarInArgs  == (-1)..XbarInputs      \* includes both out-of-range sides
XbarOutArgs == (-1)..XbarOutputs

XbarInit ==
    /\ crossbar = CrossbarInit(XbarInputs, XbarOutputs)
    /\ ics = IdleICS
    /\ dq = IdleDQ
    /\ lastOp = NoOp
    /\ issued = <<>>
    /\ crashed = FALSE
    /\ ThreadsIdle
    /\ IRQIdle
    /\ RingIdle

XbarConnect(i, o) ==
    /\ crossbar.totalSwitches < MaxSwitches
    /\ crossbar.blockedAttempts < MaxBlocked
    /\ LET r == CrossbarConnect(crossbar, i, o)
       IN /\ crossbar' = r.cs
          /\ lastOp' = Call("Connect", i, o, CrossbarHeldBy(crossbar, i), 0, r.ok, -1)
    /\ UNCHANGED <<ics, dq, issued, crashed, thrVars, irqVars, ringVars>>

XbarDisconnect(i) ==
    /\ crossbar' = CrossbarDisconnect(crossbar, i)
    /\ lastOp' = Call("Disconnect", i, 0, 0, 0, TRUE, -1)
    /\ UNCHANGED <<ics, dq, issued, crashed, thrVars, irqVars, ringVars>>

XbarDisconnectAll ==
    /\ crossbar' = CrossbarDisconnectAll(crossbar)
    /\ lastOp' = Call("DisconnectAll", 0, 0, 0, 0, TRUE, -1)
    /\ UNCHANGED <<ics, dq, issued, crashed, thrVars, irqVars, ringVars>>

XbarCycle ==
    /\ crossbar.cycles < MaxCycles
    /\ crossbar' = CrossbarCycle(crossbar)
    /\ lastOp' = Call("Cycle", 0, 0, 0, 0, TRUE, -1)
    /\ UNCHANGED <<ics, dq, issued, crashed, thrVars, irqVars, ringVars>>

XbarNext ==
    \/ \E i \in XbarInArgs, o \in XbarOutArgs : XbarConnect(i, o)
    \/ \E i \in XbarInArgs : XbarDisconnect(i)
    \/ XbarDisconnectAll
    \/ XbarCycle

SpecXbar == XbarInit /\ [][XbarNext]_vars

(***************************************************************************)
(* Inter-chip switch driven by one caller                                  *)
(***************************************************************************)
LenArgs     == 1..MaxLen
TransferArgs == (-1)..MaxTransfers

ICSSpecInit ==
    LET r == ICSInit(NumChips, TotalDQPins, NumDQChannels)
    IN /\ r.status = "ok"
       /\ ics = r.ics
       /\ dq = r.dq
       /\ crossbar = r.cs
       /\ lastOp = NoOp
       /\ issued = <<>>
       /\ crashed = FALSE
       /\ ThreadsIdle
       /\ IRQIdle
       /\ RingIdle

StartTransfer(src, dst, ch, len) ==
    /\ ics.nextTransferID < MaxTransfers
    /\ crossbar.blockedAttempts < MaxICSBlocked
    /\ LET r == ICSStartTransfer(ics, crossbar, dq, src, dst, ch, len)
       IN /\ ics' = r.ics
          /\ crossbar' = r.cs
          /\ lastOp' = Call("StartTransfer", src, dst, ch, len, r.ok, r.id)
          /\ issued' = IF r.ok THEN Append(issued, r.id) ELSE issued
    /\ UNCHANGED <<dq, crashed, thrVars, irqVars, ringVars>>

CompleteTransfer(id) ==
    /\ LET r == ICSCompleteTransfer(ics, crossbar, id)
       IN /\ ics' = r.ics
          /\ crossbar' = r.cs
          /\ lastOp' = Call("CompleteTransfer", id, 0, 0, 0, r.ok, id)
    /\ UNCHANGED <<dq, issued, crashed, thrVars, irqVars, ringVars>>

Cycle ==
    /\ ics.cycles < MaxICSCycles
    /\ LET r == ICSCycle(ics, crossbar)
       IN /\ ics' = r.ics
          /\ crossbar' = r.cs
          /\ lastOp' = Call("Cycle", 0, 0, 0, 0, TRUE, -1)
    /\ UNCHANGED <<dq, issued, crashed, thrVars, irqVars, ringVars>>

\* Arguments <<src, dst, channel, len>> tried on StartTransfer: every pair of
\* chips, every channel and payload length, and each argument out of range on
\* either side
StartArgs ==
    {<<src, dst, 0, 1>> : src \in 0..(NumChips - 1), dst \in 0..(NumChips - 1)}
    \cup {<<0, 1, ch, len>> : ch \in 0..(NumDQChannels - 1), len \in LenArgs}
    \cup {<<src, 0, 0, 1>> : src \in {-1, NumChips}}
    \cup {<<0, dst, 0, 1>> : dst \in {-1, NumChips}}
    \cup {<<0, 1, ch, 1>> : ch \in {-1, NumDQChannels}}

ICSNext ==
    \/ \E a \in StartArgs : StartTransfer(a[1], a[2], a[3], a[4])
    \/ \E id \in TransferArgs : CompleteTransfer(id)
    \/ Cycle

SpecICS == ICSSpecInit /\ [][ICSNext]_vars

(***************************************************************************)
(* DQPinPartition.Init applied to arbitrary arguments, repeatedly on the   *)
(* same object                                                             *)
(***************************************************************************)
PinArgs       == (-2)..MaxPins
ChannelCountArgs == (-2)..MaxChannels

DQSpecInit ==
    /\ dq = IdleDQ
    /\ ics = IdleICS
    /\ crossbar = CrossbarInit(0, 0)
    /\ lastOp = NoOp
    /\ issued = <<>>
    /\ crashed = FALSE
    /\ ThreadsIdle
    /\ IRQIdle
    /\ RingIdle

DQPartitionInit(totalPins, numChannels) ==
    /\ ~crashed
    /\ LET r == DQInit(dq, totalPins, numChannels)
       IN /\ dq' = r.dq
          /\ crashed' = (r.status = "panic")
          /\ lastOp' = Call("DQInit", totalPins, numChannels, 0, 0, r.status = "ok", -1)
    /\ UNCHANGED <<crossbar, ics, issued, thrVars, irqVars, ringVars>>

DQNext == \E t \in PinArgs, n \in ChannelCountArgs : DQPartitionInit(t, n)

SpecDQ == DQSpecInit /\ [][DQNext]_vars

(***************************************************************************)
(* One crossbar shared by several threads                                  *)
(***************************************************************************)
MTPortArgs == (-1)..(MTPorts - 1)

LockedCalls ==
    {[op |-> "Connect", a |-> i, b |-> o] : i \in MTPortArgs, o \in MTPortArgs}
    \cup {[op |-> "Disconnect", a |-> i, b |-> 0] : i \in MTPortArgs}
    \cup {[op |-> "DisconnectAll", a |-> 0, b |-> 0],
          [op |-> "GetStatistics", a |-> 0, b |-> 0]}

MTInit ==
    /\ crossbar = CrossbarInit(MTPorts, MTPorts)
    /\ ics = IdleICS
    /\ dq = IdleDQ
    /\ lastOp = NoOp
    /\ issued = <<>>
    /\ crashed = FALSE
    /\ ThreadsIdle
    /\ IRQIdle
    /\ RingIdle

\* cs.mu.Lock() at the start of Connect, Disconnect, DisconnectAll, GetStatistics
MTLock(t, c) ==
    /\ pc[t] = "idle"
    /\ mu = 0
    /\ crossbar.totalSwitches < MTMaxSwitches
    /\ crossbar.blockedAttempts < MTMaxBlocked
    /\ mu' = t
    /\ pc' = [pc EXCEPT ![t] = "locked"]
    /\ call' = [call EXCEPT ![t] = c]
    /\ UNCHANGED <<crossbar, ics, dq, lastOp, issued, crashed, reg, readers, cycleCalls, irqVars, ringVars>>

\* the body of the locked method and the deferred cs.mu.Unlock()
MTBodyUnlock(t) ==
    /\ pc[t] = "locked"
    /\ mu = t
    /\ LET c == call[t]
       IN \/ /\ c.op = "Connect"
             /\ LET r == CrossbarConnect(crossbar, c.a, c.b)
                IN /\ crossbar' = r.cs
                   /\ lastOp' = Call("Connect", c.a, c.b, CrossbarHeldBy(crossbar, c.a), t, r.ok, -1)
          \/ /\ c.op = "Disconnect"
             /\ crossbar' = CrossbarDisconnect(crossbar, c.a)
             /\ lastOp' = Call("Disconnect", c.a, 0, 0, t, TRUE, -1)
          \/ /\ c.op = "DisconnectAll"
             /\ crossbar' = CrossbarDisconnectAll(crossbar)
             /\ lastOp' = Call("DisconnectAll", 0, 0, 0, t, TRUE, -1)
          \/ /\ c.op = "GetStatistics"
             /\ crossbar' = crossbar
             /\ lastOp' = Call("GetStatistics", crossbar.cycles, crossbar.totalSwitches,
                               CrossbarActiveConnections(crossbar), t, TRUE, -1)
    /\ mu' = 0
    /\ pc' = [pc EXCEPT ![t] = "idle"]
    /\ call' = [call EXCEPT ![t] = NoCall]
    /\ UNCHANGED <<ics, dq, issued, crashed, reg, readers, cycleCalls, irqVars, ringVars>>

\* Cycle(), first half of cs.cycles++: load the counter (no lock is taken)
MTCycleLoad(t) ==
    /\ pc[t] = "idle"
    /\ cycleCalls + Cardinality({u \in Threads : pc[u] = "cycle"}) < MTMaxCycleCalls
    /\ reg' = [reg EXCEPT ![t] = crossbar.cycles]
    /\ pc' = [pc EXCEPT ![t] = "cycle"]
    /\ call' = [call EXCEPT ![t] = [op |-> "Cycle", a |-> 0, b |-> 0]]
    /\ UNCHANGED <<crossbar, ics, dq, lastOp, issued, crashed, mu, readers, cycleCalls, irqVars, ringVars>>

\* Cycle(), second half of cs.cycles++: store the incremented value and return
MTCycleStore(t) ==
    /\ pc[t] = "cycle"
    /\ crossbar' = [crossbar EXCEPT !.cycles = reg[t] + 1]
    /\ pc' = [pc EXCEPT ![t] = "idle"]
    /\ call' = [call EXCEPT ![t] = NoCall]
    /\ cycleCalls' = cycleCalls + 1
    /\ reg' = [reg EXCEPT ![t] = 0]    \* the loaded value is dead from here on
    /\ lastOp' = Call("Cycle", 0, 0, 0, t, TRUE, -1)
    /\ UNCHANGED <<ics, dq, issued, crashed, mu, readers, irqVars, ringVars>>

MTNext ==
    \E t \in Threads :
        \/ \E c \in LockedCalls : MTLock(t, c)
        \/ MTBodyUnlock(t)
        \/ MTCycleLoad(t)
        \/ MTCycleStore(t)

SpecMT == MTInit /\ [][MTNext]_vars

(***************************************************************************)
(* Inter-rank queue driven by one caller                                   *)
(***************************************************************************)
\* Coordinates tried by the caller: every valid (channel, rank) pair, and the
\* pairs with one coordinate just outside its range on either side.
ValidCoords == {<<ch, r>> : ch \in 0..(IRQChannels - 1), r \in 0..(IRQRanks - 1)}

InvalidCoords == {<<-1, 0>>, <<IRQChannels, 0>>, <<0, -1>>, <<0, IRQRanks>>}

CoordArgs == ValidCoords \cup InvalidCoords

MsgLenArgs == 1..MaxMsgLen

\* Clear does not validate: a bucket outside the grid is tried as well
ClearArgs == ValidCoords \cup {<<IRQChannels, 0>>}

\* Arguments <<src, dst, len>> tried on SendPointToPoint
P2PArgs ==
    {<<s, d, len>> : s \in {c \in ValidCoords : c[1] = 0}, d \in ValidCoords,
                     len \in MsgLenArgs}
    \cup {<<s, <<0, 0>>, 1>> : s \in InvalidCoords}
    \cup {<<<<0, 0>>, d, 1>> : d \in InvalidCoords}

IRQSpecInit ==
    LET r == IRQInit(ZeroIRQ, IRQChannels, IRQRanks, IRQBusWidth, IRQBandwidth)
    IN /\ r.status = "ok"
       /\ irq = r.irq
       /\ readResult = <<>>
       /\ delivered = [key \in DOMAIN r.irq.pendingMessages |-> 0]
       /\ ledger = NoLedger
       /\ RingIdle
       /\ crossbar = CrossbarInit(0, 0)
       /\ ics = IdleICS
       /\ dq = IdleDQ
       /\ lastOp = NoOp
       /\ issued = <<>>
       /\ crashed = FALSE
       /\ ThreadsIdle

Broadcast(ch, src, len) ==
    /\ irq.messageIDCounter < MaxMsgs
    /\ LET r == IRQBroadcast(irq, ch, src, len)
       IN /\ irq' = r.irq
          /\ lastOp' = Call("Broadcast", ch, src, len, 0, r.err = "", -1)
    /\ readResult' = <<>>
    /\ delivered' = TrackDelivered(delivered, lastOp', irq, irq')
    /\ UNCHANGED <<ledger, crossbar, ics, dq, issued, crashed, thrVars, ringVars>>

SendPointToPoint(sch, src, dch, dst, len) ==
    /\ irq.messageIDCounter < MaxMsgs
    /\ LET r == IRQSendPointToPoint(irq, sch, src, dch, dst, len)
       IN /\ irq' = r.irq
          /\ lastOp' = Call("SendPointToPoint", sch, src, dch, dst, r.err = "", len)
    /\ readResult' = <<>>
    /\ delivered' = TrackDelivered(delivered, lastOp', irq, irq')
    /\ UNCHANGED <<ledger, crossbar, ics, dq, issued, crashed, thrVars, ringVars>>

\* lastOp.a is the number of messages the call took off the queue
QueueCycle ==
    /\ irq.cycles < MaxIRQCycles
    /\ irq' = IRQCycle(irq)
    /\ lastOp' = Call("QueueCycle", Len(irq.messageQueue) - Len(irq'.messageQueue),
                      0, 0, 0, TRUE, -1)
    /\ readResult' = <<>>
    /\ delivered' = TrackDelivered(delivered, lastOp', irq, irq')
    /\ UNCHANGED <<ledger, crossbar, ics, dq, issued, crashed, thrVars, ringVars>>

Read(ch, r) ==
    /\ LET res == IRQRead(irq, ch, r)
       IN /\ irq' = res.irq
          /\ readResult' = res.msgs
          /\ lastOp' = Call("Read", ch, r, 0, 0, res.err = "", -1)
    /\ delivered' = TrackDelivered(delivered, lastOp', irq, irq')
    /\ UNCHANGED <<ledger, crossbar, ics, dq, issued, crashed, thrVars, ringVars>>

GetPendingCount(ch, r) ==
    /\ LET res == IRQGetPendingCount(irq, ch, r)
       IN lastOp' = Call("GetPendingCount", ch, r, res.count, 0, res.err = "", -1)
    /\ readResult' = <<>>
    /\ UNCHANGED <<irq, delivered, ledger, crossbar, ics, dq, issued, crashed, thrVars, ringVars>>

Clear(ch, r) ==
    /\ irq' = IRQClear(irq, ch, r)
    /\ lastOp' = Call("Clear", ch, r, 0, 0, TRUE, -1)
    /\ readResult' = <<>>
    /\ delivered' = TrackDelivered(delivered, lastOp', irq, irq')
    /\ UNCHANGED <<ledger, crossbar, ics, dq, issued, crashed, thrVars, ringVars>>

IRQNext ==
    \/ \E c \in CoordArgs, len \in MsgLenArgs : Broadcast(c[1], c[2], len)
    \/ \E a \in P2PArgs : SendPointToPoint(a[1][1], a[1][2], a[2][1], a[2][2], a[3])
    \/ QueueCycle
    \/ \E c \in CoordArgs : Read(c[1], c[2])
    \/ \E c \in CoordArgs : GetPendingCount(c[1], c[2])
    \/ \E c \in ClearArgs : Clear(c[1], c[2])

SpecIRQ == IRQSpecInit /\ [][IRQNext]_vars

(***************************************************************************)
(* Inter-rank queue, bus traffic only: messages are enqueued and drained,  *)
(* nobody reads the buckets                                                *)
(***************************************************************************)
\* Unicast traffic mixed with the broadcasts: one sender, every destination
BusP2PArgs ==
    {<<<<0, 0>>, d, len>> : d \in ValidCoords, len \in MsgLenArgs}
    \cup {<<<<0, 0>>, <<0, IRQRanks>>, 1>>}

BusNext ==
    \/ /\ irq.messageIDCounter < BusMaxMsgs
       /\ \E c \in CoordArgs, len \in MsgLenArgs : Broadcast(c[1], c[2], len)
    \/ /\ irq.messageIDCounter < BusMaxMsgs
       /\ \E a \in BusP2PArgs : SendPointToPoint(a[1][1], a[1][2], a[2][1], a[2][2], a[3])
    \/ QueueCycle

SpecIRQBus == IRQSpecInit /\ [][BusNext]_vars

(***************************************************************************)
(* Inter-rank queue, bandwidth of the bus: payloads from the empty one to  *)
(* one byte more than a cycle can carry, sent from rank 0 as broadcasts    *)
(* and as unicasts to the last rank, and drained over several cycles       *)
(***************************************************************************)
FlowLenArgs == 0..(IRQBandwidth + 1)

FlowBroadcast(len) ==
    /\ irq.messageIDCounter < FlowMaxMsgs
    /\ LET r == IRQBroadcast(irq, 0, 0, len)
       IN /\ irq' = r.irq
          /\ lastOp' = Call("Broadcast", 0, 0, len, 0, r.err = "", -1)
    /\ readResult' = <<>>
    /\ delivered' = TrackDelivered(delivered, lastOp', irq, irq')
    /\ UNCHANGED <<ledger, crossbar, ics, dq, issued, crashed, thrVars, ringVars>>

FlowSendPointToPoint(len) ==
    /\ irq.messageIDCounter < FlowMaxMsgs
    /\ LET r == IRQSendPointToPoint(irq, 0, 0, 0, IRQRanks - 1, len)
       IN /\ irq' = r.irq
          /\ lastOp' = Call("SendPointToPoint", 0, 0, 0, IRQRanks - 1, r.err = "", len)
    /\ readResult' = <<>>
    /\ delivered' = TrackDelivered(delivered, lastOp', irq, irq')
    /\ UNCHANGED <<ledger, crossbar, ics, dq, issued, crashed, thrVars, ringVars>>

\* lastOp.a is the number of messages the call took off the queue
FlowCycle ==
    /\ irq.cycles < FlowMaxCycles
    /\ irq' = IRQCycle(irq)
    /\ lastOp' = Call("QueueCycle", Len(irq.messageQueue) - Len(irq'.messageQueue),
                      0, 0, 0, TRUE, -1)
    /\ readResult' = <<>>
    /\ delivered' = TrackDelivered(delivered, lastOp', irq, irq')
    /\ UNCHANGED <<ledger, crossbar, ics, dq, issued, crashed, thrVars, ringVars>>

FlowNext ==
    \/ \E len \in FlowLenArgs : FlowBroadcast(len)
    \/ \E len \in FlowLenArgs : FlowSendPointToPoint(len)
    \/ FlowCycle

SpecIRQFlow == IRQSpecInit /\ [][FlowNext]_vars

(***************************************************************************)
(* Inter-rank queue, order of delivery: traffic as above, and the last     *)
(* rank reading its bucket of channel 0, which receives every message,     *)
(* whenever something is pending there                                     *)
(***************************************************************************)
FlowRead ==
    /\ IRQGetPendingCount(irq, 0, IRQRanks - 1).count > 0
    /\ LET res == IRQRead(irq, 0, IRQRanks - 1)
       IN /\ irq' = res.irq
          /\ readResult' = res.msgs
          /\ lastOp' = Call("Read", 0, IRQRanks - 1, 0, 0, res.err = "", -1)
    /\ delivered' = TrackDelivered(delivered, lastOp', irq, irq')
    /\ UNCHANGED <<ledger, crossbar, ics, dq, issued, crashed, thrVars, ringVars>>

\* broadcasts of every size, mixed with one-byte unicasts
FifoNext ==
    \/ \E len \in FlowLenArgs : FlowBroadcast(len)
    \/ FlowSendPointToPoint(1)
    \/ FlowCycle
    \/ FlowRead

SpecIRQFifo == IRQSpecInit /\ [][FifoNext]_vars

(***************************************************************************)
(* Inter-rank queue filled to capacity: rank 0 enqueues one-byte           *)
(* broadcasts until the queue is full, unicasts are tried on the last free *)
(* slot and on the full queue, and the bus is cycled when the queue is     *)
(* full; calls with a coordinate outside the grid are made all along       *)
(***************************************************************************)
CapBroadcast ==
    /\ LET r == IRQBroadcast(irq, 0, 0, 1)
       IN /\ irq' = r.irq
          /\ lastOp' = Call("Broadcast", 0, 0, 1, 0, r.err = "", -1)
    /\ readResult' = <<>>
    /\ delivered' = TrackDelivered(delivered, lastOp', irq, irq')
    /\ UNCHANGED <<ledger, crossbar, ics, dq, issued, crashed, thrVars, ringVars>>

CapSendPointToPoint ==
    /\ Len(irq.messageQueue) >= irq.bufferSize - 1
    /\ LET r == IRQSendPointToPoint(irq, 0, 0, 0, IRQRanks - 1, 1)
       IN /\ irq' = r.irq
          /\ lastOp' = Call("SendPointToPoint", 0, 0, 0, IRQRanks - 1, r.err = "", 1)
    /\ readResult' = <<>>
    /\ delivered' = TrackDelivered(delivered, lastOp', irq, irq')
    /\ UNCHANGED <<ledger, crossbar, ics, dq, issued, crashed, thrVars, ringVars>>

\* lastOp.a is the number of messages the call took off the queue
CapCycle ==
    /\ irq.cycles < CapMaxCycles
    /\ Len(irq.messageQueue) >= irq.bufferSize
    /\ irq' = IRQCycle(irq)
    /\ lastOp' = Call("QueueCycle", Len(irq.messageQueue) - Len(irq'.messageQueue),
                      0, 0, 0, TRUE, -1)
    /\ readResult' = <<>>
    /\ delivered' = TrackDelivered(delivered, lastOp', irq, irq')
    /\ UNCHANGED <<ledger, crossbar, ics, dq, issued, crashed, thrVars, ringVars>>

\* calls with a coordinate outside the grid, made whatever the queue holds
RangeBroadcast(ch, src) ==
    /\ LET r == IRQBroadcast(irq, ch, src, 1)
       IN /\ irq' = r.irq
          /\ lastOp' = Call("Broadcast", ch, src, 1, 0, r.err = "", -1)
    /\ readResult' = <<>>
    /\ delivered' = TrackDelivered(delivered, lastOp', irq, irq')
    /\ UNCHANGED <<ledger, crossbar, ics, dq, issued, crashed, thrVars, ringVars>>

RangeSendPointToPoint(sch, src, dch, dst) ==
    /\ LET r == IRQSendPointToPoint(irq, sch, src, dch, dst, 1)
       IN /\ irq' = r.irq
          /\ lastOp' = Call("SendPointToPoint", sch, src, dch, dst, r.err = "", 1)
    /\ readResult' = <<>>
    /\ delivered' = TrackDelivered(delivered, lastOp', irq, irq')
    /\ UNCHANGED <<ledger, crossbar, ics, dq, issued, crashed, thrVars, ringVars>>

CapNext ==
    \/ CapBroadcast
    \/ CapSendPointToPoint
    \/ CapCycle
    \/ \E c \in InvalidCoords : RangeBroadcast(c[1], c[2])
    \/ \E c \in InvalidCoords : RangeSendPointToPoint(c[1], c[2], 0, 0)
    \/ \E c \in InvalidCoords : RangeSendPointToPoint(0, 0, c[1], c[2])
    \/ \E c \in InvalidCoords : Read(c[1], c[2])
    \/ \E c \in InvalidCoords : GetPendingCount(c[1], c[2])

SpecIRQCap == IRQSpecInit /\ [][CapNext]_vars

(***************************************************************************)
(* Inter-rank queue, the buckets: one-byte broadcasts from the first and   *)
(* the last rank and unicasts to the last rank are drained over several    *)
(* cycles, while three buckets are read, counted and cleared               *)
(***************************************************************************)
ProbeCoords == {<<0, 0>>, <<0, IRQRanks - 1>>, <<IRQChannels - 1, IRQRanks - 1>>}

\* the buckets above and one coordinate pair outside the grid
ProbeArgs == ProbeCoords \cup {<<IRQChannels, 0>>}

ProbeNext ==
    \/ \E src \in {0, IRQRanks - 1} : Broadcast(0, src, 1)
    \/ SendPointToPoint(0, 0, IRQChannels - 1, IRQRanks - 1, 1)
    \/ FlowCycle
    \/ \E c \in ProbeArgs : Read(c[1], c[2])
    \/ \E c \in ProbeArgs : GetPendingCount(c[1], c[2])
    \/ \E c \in ProbeArgs : Clear(c[1], c[2])

SpecIRQProbe == IRQSpecInit /\ [][ProbeNext]_vars

(***************************************************************************)
(* InterRankControlQ.Init applied to arbitrary arguments, on a fresh       *)
(* object and on one that has carried traffic                              *)
(***************************************************************************)
DimArgs       == (-1)..InitMaxDim
BusWidthArgs  == (-1)..IRQBusWidth
BandwidthArgs == {-1, 0, IRQBandwidth}

QueueSpecInit ==
    /\ IRQIdle
    /\ RingIdle
    /\ crossbar = CrossbarInit(0, 0)
    /\ ics = IdleICS
    /\ dq = IdleDQ
    /\ lastOp = NoOp
    /\ issued = <<>>
    /\ crashed = FALSE
    /\ ThreadsIdle

QueueInit(numChannels, numRanks, busWidth, bandwidth) ==
    /\ ~crashed
    /\ LET r == IRQInit(irq, numChannels, numRanks, busWidth, bandwidth)
       IN /\ irq' = r.irq
          /\ crashed' = (r.status = "panic")
          /\ lastOp' = Call("Init", numChannels, numRanks, busWidth, bandwidth,
                            r.status = "ok", -1)
          /\ delivered' = IF r.status = "ok"
                          THEN [key \in DOMAIN r.irq.pendingMessages |-> 0]
                          ELSE delivered
    /\ readResult' = <<>>
    /\ UNCHANGED <<ledger, crossbar, ics, dq, issued, thrVars, ringVars>>

QueueInitNext ==
    \/ \E nc \in DimArgs, nr \in DimArgs, bw \in BusWidthArgs, b \in BandwidthArgs :
          QueueInit(nc, nr, bw, b)
    \/ ~crashed /\ Broadcast(0, 0, 1)
    \/ ~crashed /\ QueueCycle

SpecIRQInit == QueueSpecInit /\ [][QueueInitNext]_vars

(***************************************************************************)
(* One inter-rank queue shared by several threads.  Every method but Init  *)
(* starts with irq.mu.Lock() (GetPendingCount: RLock()) and defers the     *)
(* release; a thread takes the lock in one step and runs the body in the   *)
(* steps the body is made of.  Before it starts the threads, the main      *)
(* thread (thread 0) may fill the queue up to one message below its        *)
(* capacity.  lastOp is not kept in these runs.                            *)
(***************************************************************************)
\* the variables no step of these runs changes
qmtFrame == <<crossbar, ics, dq, lastOp, issued, cycleCalls, delivered, ringVars>>

\* the calls the threads make: a one-byte broadcast from rank 0, a one-byte
\* unicast from rank 0 to the last rank, Cycle, and Read, Clear and
\* GetPendingCount on the bucket of the last rank in channel 0
QueueWriterCalls ==
    {[op |-> "Broadcast", a |-> 0, b |-> 0],
     [op |-> "SendPointToPoint", a |-> IRQChannels - 1, b |-> IRQRanks - 1],
     [op |-> "Cycle", a |-> 0, b |-> 0],
     [op |-> "Read", a |-> 0, b |-> IRQRanks - 1],
     [op |-> "Clear", a |-> 0, b |-> IRQRanks - 1]}

QueueReaderCalls == {[op |-> "GetPendingCount", a |-> 0, b |-> IRQRanks - 1]}

QMTInit ==
    LET r == IRQInit(ZeroIRQ, IRQChannels, IRQRanks, IRQBusWidth, IRQBandwidth)
    IN /\ r.status = "ok"
       /\ irq = r.irq
       /\ readResult = <<>>
       /\ delivered = [key \in DOMAIN r.irq.pendingMessages |-> 0]
       /\ ledger = [sent |-> <<>>,
                    taken |-> [key \in DOMAIN r.irq.pendingMessages |-> <<>>]]
       /\ RingIdle
       /\ crossbar = CrossbarInit(0, 0)
       /\ ics = IdleICS
       /\ dq = IdleDQ
       /\ lastOp = NoOp
       /\ issued = <<>>
       /\ crashed = FALSE
       /\ pc = [t \in {0} \cup Threads |-> IF t = 0 THEN "fill" ELSE "idle"]
       /\ call = [t \in Threads |-> NoCall]
       /\ reg = [t \in Threads |-> 0]
       /\ readers = {}
       /\ mu = 0
       /\ cycleCalls = 0

\* the main thread has started the threads
Started == pc[0] = "started"

\* the number of messages the main thread has enqueued
Filled == IF Len(ledger.sent) >= irq.bufferSize - 1 THEN irq.bufferSize - 1 ELSE 0

\* Broadcast(0, 0, one byte) by the main thread, alone
QMTFill ==
    /\ ~crashed
    /\ pc[0] = "fill"
    /\ Len(irq.messageQueue) < irq.bufferSize - 1
    /\ IRQBroadcastCheck(irq, 0, 0) = ""
    /\ irq' = IRQEnqueue(irq, 0, BROADCAST, 1)
    /\ ledger' = [ledger EXCEPT !.sent = Append(@, irq'.messageQueue[Len(irq'.messageQueue)])]
    /\ UNCHANGED <<readResult, crashed, pc, call, reg, mu, readers, qmtFrame>>

\* the main thread starts the threads, on the empty queue or on the filled one
QMTStart ==
    /\ ~crashed
    /\ pc[0] = "fill"
    /\ Len(irq.messageQueue) \in {0, irq.bufferSize - 1}
    /\ pc' = [pc EXCEPT ![0] = "started"]
    /\ UNCHANGED <<irq, readResult, ledger, crashed, call, reg, mu, readers, qmtFrame>>

\* irq.mu.Lock() at the start of Broadcast, SendPointToPoint, Cycle, Read, Clear
QMTLock(t, c) ==
    /\ ~crashed
    /\ pc[t] = "idle"
    /\ Started
    /\ c.op \in {"Broadcast", "SendPointToPoint"} => Len(ledger.sent) < Filled + QMTMaxMsgs
    /\ c.op = "Cycle" => irq.cycles < QMTMaxCycles
    /\ CanLock(mu, readers)
    /\ mu' = t
    /\ pc' = [pc EXCEPT ![t] = "locked"]
    /\ call' = [call EXCEPT ![t] = c]
    /\ UNCHANGED <<irq, readResult, ledger, crashed, reg, readers, qmtFrame>>

\* irq.mu.RLock() at the start of GetPendingCount
QMTRLock(t, c) ==
    /\ ~crashed
    /\ pc[t] = "idle"
    /\ Started
    /\ CanRLock(mu, readers)
    /\ readers' = readers \cup {t}
    /\ pc' = [pc EXCEPT ![t] = "rlocked"]
    /\ call' = [call EXCEPT ![t] = c]
    /\ UNCHANGED <<irq, readResult, ledger, crashed, reg, mu, qmtFrame>>

\* Broadcast and SendPointToPoint: the coordinate and capacity checks; on an
\* error the call returns and the deferred Unlock() runs
QMTCheck(t) ==
    /\ ~crashed
    /\ pc[t] = "locked"
    /\ call[t].op \in {"Broadcast", "SendPointToPoint"}
    /\ LET c == call[t]
           err == IF c.op = "Broadcast"
                  THEN IRQBroadcastCheck(irq, c.a, c.b)
                  ELSE IRQSendCheck(irq, 0, 0, c.a, c.b)
       IN IF err = ""
          THEN /\ pc' = [pc EXCEPT ![t] = "append"]
               /\ UNCHANGED <<mu, call>>
          ELSE /\ pc' = [pc EXCEPT ![t] = "idle"]
               /\ call' = [call EXCEPT ![t] = NoCall]
               /\ mu' = 0
    /\ UNCHANGED <<irq, readResult, ledger, crashed, reg, readers, qmtFrame>>

\* Broadcast and SendPointToPoint: the message is built and queued, the call
\* returns and the deferred Unlock() runs
QMTAppend(t) ==
    /\ ~crashed
    /\ pc[t] = "append"
    /\ LET c == call[t]
       IN irq' = IRQEnqueue(irq, 0, IF c.op = "Broadcast" THEN BROADCAST ELSE c.b, 1)
    /\ ledger' = [ledger EXCEPT !.sent = Append(@, irq'.messageQueue[Len(irq'.messageQueue)])]
    /\ mu' = 0
    /\ pc' = [pc EXCEPT ![t] = "idle"]
    /\ call' = [call EXCEPT ![t] = NoCall]
    /\ UNCHANGED <<readResult, crashed, reg, readers, qmtFrame>>

\* Cycle: irq.cycles++ and the delivery loop; messagesProcessed is kept
QMTDeliver(t) ==
    /\ ~crashed
    /\ pc[t] = "locked"
    /\ call[t].op = "Cycle"
    /\ LET r == IRQCycleDeliver(irq)
       IN /\ irq' = r.irq
          /\ reg' = [reg EXCEPT ![t] = r.n]
    /\ pc' = [pc EXCEPT ![t] = "truncate"]
    /\ UNCHANGED <<readResult, ledger, crashed, call, mu, readers, qmtFrame>>

\* Cycle: the delivered messages are cut off the queue, the call returns and
\* the deferred Unlock() runs
QMTTruncate(t) ==
    /\ ~crashed
    /\ pc[t] = "truncate"
    /\ LET r == IRQCycleTruncate(irq, reg[t])
       IN /\ irq' = r.irq
          /\ crashed' = (r.status = "panic")
    /\ reg' = [reg EXCEPT ![t] = 0]
    /\ mu' = 0
    /\ pc' = [pc EXCEPT ![t] = "idle"]
    /\ call' = [call EXCEPT ![t] = NoCall]
    /\ UNCHANGED <<readResult, ledger, readers, qmtFrame>>

\* Read: the coordinate check and the copy of the bucket
QMTReadCopy(t) ==
    /\ ~crashed
    /\ pc[t] = "locked"
    /\ call[t].op = "Read"
    /\ LET c == call[t]
           r == IRQReadCopy(irq, c.a, c.b)
       IN IF r.err = ""
          THEN /\ reg' = [reg EXCEPT ![t] = r.msgs]
               /\ pc' = [pc EXCEPT ![t] = "reset"]
               /\ UNCHANGED <<mu, call, readResult>>
          ELSE /\ pc' = [pc EXCEPT ![t] = "idle"]
               /\ call' = [call EXCEPT ![t] = NoCall]
               /\ mu' = 0
               /\ readResult' = <<>>
               /\ UNCHANGED reg
    /\ UNCHANGED <<irq, ledger, crashed, readers, qmtFrame>>

\* Read: the bucket is replaced by an empty one, the copy is returned and the
\* deferred Unlock() runs
QMTReadReset(t) ==
    /\ ~crashed
    /\ pc[t] = "reset"
    /\ LET c == call[t]
       IN /\ irq' = IRQReadReset(irq, c.a, c.b)
          /\ ledger' = [ledger EXCEPT !.taken[makeKey(c.a, c.b)] = @ \o reg[t]]
    /\ readResult' = reg[t]
    /\ reg' = [reg EXCEPT ![t] = 0]
    /\ mu' = 0
    /\ pc' = [pc EXCEPT ![t] = "idle"]
    /\ call' = [call EXCEPT ![t] = NoCall]
    /\ UNCHANGED <<crashed, readers, qmtFrame>>

\* Clear: the body and the deferred Unlock()
QMTClear(t) ==
    /\ ~crashed
    /\ pc[t] = "locked"
    /\ call[t].op = "Clear"
    /\ LET c == call[t]
       IN /\ irq' = IRQClear(irq, c.a, c.b)
          /\ ledger' = [ledger EXCEPT !.taken[makeKey(c.a, c.b)] =
                                         @ \o Bucket(irq.pendingMessages, makeKey(c.a, c.b))]
    /\ readResult' = <<>>
    /\ mu' = 0
    /\ pc' = [pc EXCEPT ![t] = "idle"]
    /\ call' = [call EXCEPT ![t] = NoCall]
    /\ UNCHANGED <<crashed, reg, readers, qmtFrame>>

\* GetPendingCount: the body, which changes nothing, and the deferred
\* RUnlock(); the count goes to the caller
QMTCount(t) ==
    /\ ~crashed
    /\ pc[t] = "rlocked"
    /\ readers' = readers \ {t}
    /\ pc' = [pc EXCEPT ![t] = "idle"]
    /\ call' = [call EXCEPT ![t] = NoCall]
    /\ UNCHANGED <<irq, readResult, ledger, crashed, reg, mu, qmtFrame>>

QMTNext ==
    \/ QMTFill
    \/ QMTStart
    \/ \E t \in Threads :
          \/ \E c \in QueueWriterCalls : QMTLock(t, c)
          \/ \E c \in QueueReaderCalls : QMTRLock(t, c)
          \/ QMTCheck(t)
          \/ QMTAppend(t)
          \/ QMTDeliver(t)
          \/ QMTTruncate(t)
          \/ QMTReadCopy(t)
          \/ QMTReadReset(t)
          \/ QMTClear(t)
          \/ QMTCount(t)

SpecIRQMT == QMTInit /\ [][QMTNext]_vars

(***************************************************************************)
(* Ring all-reduce: a ring of 0 to RingMaxNodes nodes is set up, and one   *)
(* RingAllReduce call is made on it, a round of its two loops at a time.   *)
(* In a round the network takes every packet and drains, or refuses the    *)
(* packet of the first or of the last node, or does not drain in time.     *)
(***************************************************************************)
\* the frame of the other objects, which these runs leave alone
ringFrame == <<crossbar, ics, dq, lastOp, issued, thrVars, irqVars, codec>>

RingOps == {SUM, MAX, MIN, PROD}

RingValues == (1..RingMaxValue) \cup {MaxWord}

\* the input vectors tried on a ring of n nodes: every vector of n values,
\* and one that is one value too long
RingInputs(n) == [1..n -> RingValues] \cup {[i \in 1..(n + 1) |-> 1]}

\* the node whose packet the network refuses in a round: the first, the
\* last, or none (numNodes)
FailAtArgs == {0, ring.numNodes - 1, ring.numNodes}

RingSpecInit ==
    /\ \E n \in 0..RingMaxNodes : ring = RingInit(ZeroRing, n).rt
    /\ allReduce = NoRun
    /\ rst = ZeroRST /\ rsCall = NoRSCall
    /\ net = NoNet
    /\ codec = NoCodec
    /\ crossbar = CrossbarInit(0, 0)
    /\ ics = IdleICS
    /\ dq = IdleDQ
    /\ lastOp = NoOp
    /\ issued = <<>>
    /\ crashed = FALSE
    /\ ThreadsIdle
    /\ IRQIdle

\* RingAllReduce up to its first loop: the length check and the copy
AllReduceCall(initialValues, op) ==
    /\ ~crashed
    /\ allReduce.phase = "idle"
    /\ allReduce' =
          IF Len(initialValues) # ring.numNodes
          THEN [NoRun EXCEPT !.phase = "returned", !.op = op,
                             !.initialValues = initialValues, !.err = "length"]
          ELSE [NoRun EXCEPT !.phase = "scatter", !.op = op,
                             !.initialValues = initialValues,
                             !.nodeValues = initialValues]
    /\ UNCHANGED <<ring, net, rst, rsCall, crashed, ringFrame>>

\* one round of the reduce-scatter loop
AllReduceScatter(failAt, drained) ==
    /\ ~crashed
    /\ allReduce.phase = "scatter"
    /\ allReduce.step < ring.numNodes - 1
    /\ LET r == SendAll(ring, 0, failAt)
       IN /\ ring' = r.rt
          /\ net' = NetRound(net, r.calls, r.err = "", drained)
          /\ allReduce' =
                IF r.err # ""
                THEN [allReduce EXCEPT !.phase = "returned", !.err = r.err]
                ELSE IF ~drained
                THEN [allReduce EXCEPT !.phase = "returned", !.err = "network timeout"]
                ELSE [allReduce EXCEPT
                         !.nodeValues = ReduceFromPrev(ring, @, 0, allReduce.op),
                         !.step = @ + 1]
    /\ UNCHANGED <<crashed, rst, rsCall, ringFrame>>

\* the end of the reduce-scatter loop
AllReduceScatterDone ==
    /\ ~crashed
    /\ allReduce.phase = "scatter"
    /\ allReduce.step >= ring.numNodes - 1
    /\ allReduce' = [allReduce EXCEPT !.phase = "gather", !.step = 0]
    /\ UNCHANGED <<ring, net, rst, rsCall, crashed, ringFrame>>

\* one round of the all-gather loop
AllReduceGather(failAt, drained) ==
    /\ ~crashed
    /\ allReduce.phase = "gather"
    /\ allReduce.step < ring.numNodes - 1
    /\ LET r == SendAll(ring, 0, failAt)
       IN /\ ring' = r.rt
          /\ net' = NetRound(net, r.calls, r.err = "", drained)
          /\ allReduce' =
                IF r.err # ""
                THEN [allReduce EXCEPT !.phase = "returned", !.err = r.err]
                ELSE IF ~drained
                THEN [allReduce EXCEPT !.phase = "returned", !.err = "network timeout"]
                ELSE [allReduce EXCEPT
                         !.nodeValues = TakeFromPrev(ring, @, 0, allReduce.step),
                         !.step = @ + 1]
    /\ UNCHANGED <<crashed, rst, rsCall, ringFrame>>

\* the end of the all-gather loop: finalValue := nodeValues[0] panics on the
\* empty slice, else the slice is returned
AllReduceReturn ==
    /\ ~crashed
    /\ allReduce.phase = "gather"
    /\ allReduce.step >= ring.numNodes - 1
    /\ IF Len(allReduce.nodeValues) = 0
       THEN /\ crashed' = TRUE
            /\ UNCHANGED allReduce
       ELSE /\ allReduce' = [allReduce EXCEPT !.phase = "returned",
                                               !.result = allReduce.nodeValues]
            /\ UNCHANGED crashed
    /\ UNCHANGED <<ring, net, rst, rsCall, ringFrame>>

RingNext ==
    \/ /\ allReduce.phase = "idle"
       /\ \E initialValues \in RingInputs(ring.numNodes), op \in RingOps :
             AllReduceCall(initialValues, op)
    \/ \E failAt \in FailAtArgs, drained \in BOOLEAN : AllReduceScatter(failAt, drained)
    \/ AllReduceScatterDone
    \/ \E failAt \in FailAtArgs, drained \in BOOLEAN : AllReduceGather(failAt, drained)
    \/ AllReduceReturn

SpecRing == RingSpecInit /\ [][RingNext]_vars

(***************************************************************************)
(* Reduce-scatter ring: a ring of 0 to RSMaxNodes nodes is set up, and one *)
(* call of ReduceScatter, ReduceScatterSimple or AllGather is made on it,  *)
(* a round at a time, on well-formed and on malformed inputs.  In a round  *)
(* the network takes every packet and drains, or refuses the packet of the *)
(* first or of the last node, or does not drain in time.                   *)
(***************************************************************************)
\* the rows of k columns tried: a constant row, the columns counted up, the
\* columns counted down
RowKinds(k) ==
    {[j \in 1..k |-> v] : v \in (1..RSMaxValue) \cup {MaxWord}}
        \cup {[j \in 1..k |-> j], [j \in 1..k |-> k + 1 - j]}

\* the matrices tried on a ring of n nodes that are not n rows of n columns:
\* a column too many, a row too many, a column too few, the last row or the
\* first row one column short
OddMatrices(n) ==
    {[i \in 1..n |-> [j \in 1..(n + 1) |-> i + j]],
     [i \in 1..(n + 1) |-> [j \in 1..n |-> 1]]}
        \cup (IF n >= 1 THEN {[i \in 1..n |-> [j \in 1..(n - 1) |-> 1]]} ELSE {})
        \cup (IF n >= 2
              THEN {[i \in 1..n |-> [j \in 1..(IF i = n THEN n - 1 ELSE n) |-> 1]],
                    [i \in 1..n |-> [j \in 1..(IF i = 1 THEN n - 1 ELSE n) |-> 1]]}
              ELSE {})

RSInputs(n) == [1..n -> RowKinds(n)] \cup OddMatrices(n)

\* the vectors tried on AllGather: every vector of n values, and one that is
\* one value too long
AllGatherInputs(n) ==
    [1..n -> (1..RSMaxValue) \cup {MaxWord}] \cup {[i \in 1..(n + 1) |-> 1]}

RSFailAtArgs == {0, rst.numNodes - 1, rst.numNodes}

RSSpecInit ==
    /\ \E n \in 0..RSMaxNodes : rst = RSTInit(ZeroRST, n).rst
    /\ rsCall = NoRSCall
    /\ ring = ZeroRing /\ allReduce = NoRun
    /\ net = NoNet
    /\ codec = NoCodec
    /\ crossbar = CrossbarInit(0, 0)
    /\ ics = IdleICS
    /\ dq = IdleDQ
    /\ lastOp = NoOp
    /\ issued = <<>>
    /\ crashed = FALSE
    /\ ThreadsIdle
    /\ IRQIdle

\* ReduceScatter up to its loop: the checks of the input
ReduceScatterCall(initialData, op) ==
    /\ ~crashed
    /\ rsCall.phase = "idle"
    /\ LET c == RSCheck(rst, initialData)
           f == [NoRSCall EXCEPT !.method = "ReduceScatter", !.op = op, !.input = initialData]
       IN /\ rsCall' = IF c = "" THEN [f EXCEPT !.phase = "rounds", !.data = initialData]
                       ELSE IF c = "panic" THEN [f EXCEPT !.phase = "panicked"]
                       ELSE [f EXCEPT !.phase = "returned", !.err = c]
          /\ crashed' = (c = "panic")
    /\ UNCHANGED <<rst, net, ring, allReduce, ringFrame>>

\* one round of the loop of ReduceScatter
ReduceScatterRound(failAt, drained) ==
    /\ ~crashed
    /\ rsCall.method = "ReduceScatter" /\ rsCall.phase = "rounds"
    /\ rsCall.step < rst.numNodes - 1
    /\ LET r == RSSendAll(rst, 0, failAt)
       IN /\ rst' = r.rst
          /\ net' = NetRound(net, r.calls, r.err = "", drained)
          /\ rsCall' =
                IF r.err # ""
                THEN [rsCall EXCEPT !.phase = "returned", !.err = r.err]
                ELSE IF ~drained
                THEN [rsCall EXCEPT !.phase = "returned", !.err = "network timeout"]
                ELSE [rsCall EXCEPT !.data = RSReduceRound(rst, @, rsCall.op),
                                    !.step = @ + 1]
    /\ UNCHANGED <<crashed, ring, allReduce, ringFrame>>

\* ReduceScatter after its loop: every node takes its entry, and the vector
\* is returned
ReduceScatterReturn ==
    /\ ~crashed
    /\ rsCall.method = "ReduceScatter" /\ rsCall.phase = "rounds"
    /\ rsCall.step >= rst.numNodes - 1
    /\ LET r == RSExtract(rst, rsCall.data)
       IN /\ rsCall' = IF r.status = "panic"
                       THEN [rsCall EXCEPT !.phase = "panicked"]
                       ELSE [rsCall EXCEPT !.phase = "returned", !.result = r.result]
          /\ crashed' = (r.status = "panic")
    /\ UNCHANGED <<rst, net, ring, allReduce, ringFrame>>

\* ReduceScatterSimple up to its rounds: the check and the column reductions
ReduceScatterSimpleCall(initialData, op) ==
    /\ ~crashed
    /\ rsCall.phase = "idle"
    /\ LET r == RSSimpleReduce(rst, initialData, op)
           f == [NoRSCall EXCEPT !.method = "ReduceScatterSimple", !.op = op,
                                 !.input = initialData]
       IN /\ rsCall' = IF r.status = "panic" THEN [f EXCEPT !.phase = "panicked"]
                       ELSE IF r.err # "" THEN [f EXCEPT !.phase = "returned", !.err = r.err]
                       ELSE [f EXCEPT !.phase = "rounds", !.result = r.result]
          /\ crashed' = (r.status = "panic")
    /\ UNCHANGED <<rst, net, ring, allReduce, ringFrame>>

\* AllGather up to its rounds: the check and the copies
AllGatherCall(initialValues) ==
    /\ ~crashed
    /\ rsCall.phase = "idle"
    /\ LET r == AllGatherCopy(rst, initialValues)
           f == [NoRSCall EXCEPT !.method = "AllGather", !.input = initialValues]
       IN rsCall' = IF r.err # "" THEN [f EXCEPT !.phase = "returned", !.err = r.err]
                    ELSE [f EXCEPT !.phase = "rounds", !.result = r.result]
    /\ UNCHANGED <<rst, net, crashed, ring, allReduce, ringFrame>>

\* one round of the loop of ReduceScatterSimple or of AllGather
SimulatedRound(failAt, drained) ==
    /\ ~crashed
    /\ rsCall.method \in {"ReduceScatterSimple", "AllGather"} /\ rsCall.phase = "rounds"
    /\ rsCall.step < rst.numNodes - 1
    /\ LET r == RSSendAllUnchecked(rst, 0, failAt)
       IN /\ rst' = r.rst
          /\ net' = NetRound(net, r.calls, TRUE, drained)
    /\ rsCall' = [rsCall EXCEPT !.step = @ + 1]
    /\ UNCHANGED <<crashed, ring, allReduce, ringFrame>>

\* ReduceScatterSimple and AllGather after their loop: return result, nil
SimulatedReturn ==
    /\ ~crashed
    /\ rsCall.method \in {"ReduceScatterSimple", "AllGather"} /\ rsCall.phase = "rounds"
    /\ rsCall.step >= rst.numNodes - 1
    /\ rsCall' = [rsCall EXCEPT !.phase = "returned"]
    /\ UNCHANGED <<rst, net, crashed, ring, allReduce, ringFrame>>

RSNext ==
    \/ /\ rsCall.phase = "idle"
       /\ \E initialData \in RSInputs(rst.numNodes), op \in RingOps :
             ReduceScatterCall(initialData, op)
    \/ \E failAt \in RSFailAtArgs, drained \in BOOLEAN : ReduceScatterRound(failAt, drained)
    \/ ReduceScatterReturn
    \/ /\ rsCall.phase = "idle"
       /\ \E initialData \in RSInputs(rst.numNodes), op \in RingOps :
             ReduceScatterSimpleCall(initialData, op)
    \/ /\ rsCall.phase = "idle"
       /\ \E initialValues \in AllGatherInputs(rst.numNodes) : AllGatherCall(initialValues)
    \/ \E failAt \in RSFailAtArgs, drained \in BOOLEAN : SimulatedRound(failAt, drained)
    \/ SimulatedReturn

SpecRS == RSSpecInit /\ [][RSNext]_vars

(***************************************************************************)
(* The two collectives that check the network: on rings of 0 to RSMaxNodes *)
(* nodes over the same network, one call of RingAllReduce or one call of   *)
(* ReduceScatter is made, a round at a time, with rounds that go wrong.    *)
(***************************************************************************)
CheckedSpecInit ==
    /\ \E n \in 0..RSMaxNodes :
          /\ ring = RingInit(ZeroRing, n).rt
          /\ rst = RSTInit(ZeroRST, n).rst
    /\ allReduce = NoRun
    /\ rsCall = NoRSCall
    /\ net = NoNet
    /\ codec = NoCodec
    /\ crossbar = CrossbarInit(0, 0)
    /\ ics = IdleICS
    /\ dq = IdleDQ
    /\ lastOp = NoOp
    /\ issued = <<>>
    /\ crashed = FALSE
    /\ ThreadsIdle
    /\ IRQIdle

\* no collective has been called yet
NoCollective == allReduce.phase = "idle" /\ rsCall.phase = "idle"

CheckedNext ==
    \/ /\ NoCollective
       /\ \E initialValues \in RingInputs(ring.numNodes), op \in RingOps :
             AllReduceCall(initialValues, op)
    \/ \E failAt \in FailAtArgs, drained \in BOOLEAN : AllReduceScatter(failAt, drained)
    \/ AllReduceScatterDone
    \/ \E failAt \in FailAtArgs, drained \in BOOLEAN : AllReduceGather(failAt, drained)
    \/ AllReduceReturn
    \/ /\ NoCollective
       /\ \E initialData \in RSInputs(rst.numNodes), op \in RingOps :
             ReduceScatterCall(initialData, op)
    \/ \E failAt \in RSFailAtArgs, drained \in BOOLEAN : ReduceScatterRound(failAt, drained)
    \/ ReduceScatterReturn

SpecChecked == CheckedSpecInit /\ [][CheckedNext]_vars

(***************************************************************************)
(* The codec of the collectives: the functions are pure, so one value or   *)
(* one short array of values is encoded, and the bytes, or all but the     *)
(* last of them, are decoded.                                              *)
(***************************************************************************)
CodecMaxLen == 2

codecFrame == <<crossbar, ics, dq, lastOp, issued, crashed, thrVars, irqVars,
                ring, allReduce, rst, rsCall, net>>

\* the int64 values tried: 0, every power of two (the minimum among them),
\* every value of ones from a bit up to the sign (-1 among them), every
\* value of ones from bit 0 up (the maximum among them), and 0x5555...
CodecValues ==
    {{}} \cup {{k} : k \in 0..(Int64Bits - 1)}
         \cup {k..(Int64Bits - 1) : k \in 0..(Int64Bits - 1)}
         \cup {0..k : k \in 0..(Int64Bits - 2)}
         \cup {{b \in 0..(Int64Bits - 1) : b % 2 = 0}}

\* the values tried in arrays: 0, -1, the minimum, the maximum, 128, 0xff00
CodecArrayValues ==
    {{}, 0..(Int64Bits - 1), {Int64Bits - 1}, 0..(Int64Bits - 2), {7}, 8..15}

CodecArrays == UNION {[1..n -> CodecArrayValues] : n \in 0..CodecMaxLen}

CodecSpecInit ==
    /\ crossbar = CrossbarInit(0, 0)
    /\ ics = IdleICS
    /\ dq = IdleDQ
    /\ lastOp = NoOp
    /\ issued = <<>>
    /\ crashed = FALSE
    /\ ThreadsIdle
    /\ IRQIdle
    /\ RingIdle

EncodeInt64Call(val) ==
    /\ codec' = [NoCodec EXCEPT !.op = "encodeInt64", !.val = val,
                                !.data = encodeInt64(val)]
    /\ UNCHANGED codecFrame

\* decodeInt64 on the first n bytes of what encodeInt64 returned
DecodeInt64Call(n) ==
    /\ codec.op = "encodeInt64"
    /\ n \in 0..Len(codec.data)
    /\ codec' = [codec EXCEPT !.op = "decodeInt64",
                              !.out = decodeInt64(SubSeq(codec.data, 1, n)),
                              !.whole = (n = Len(codec.data))]
    /\ UNCHANGED codecFrame

EncodeInt64ArrayCall(values) ==
    /\ codec' = [NoCodec EXCEPT !.op = "encodeInt64Array", !.values = values,
                                !.data = encodeInt64Array(values)]
    /\ UNCHANGED codecFrame

\* decodeInt64Array on the first n bytes of what encodeInt64Array returned
DecodeInt64ArrayCall(n) ==
    /\ codec.op = "encodeInt64Array"
    /\ n \in 0..Len(codec.data)
    /\ LET r == decodeInt64Array(SubSeq(codec.data, 1, n))
       IN codec' = [codec EXCEPT !.op = "decodeInt64Array",
                                 !.outs = r.values, !.isNil = r.isNil,
                                 !.whole = (n = Len(codec.data))]
    /\ UNCHANGED codecFrame

CodecNext ==
    \/ /\ codec.op = "none"
       /\ \E val \in CodecValues : EncodeInt64Call(val)
    \/ \E n \in {Len(codec.data) - 1, Len(codec.data)} : DecodeInt64Call(n)
    \/ /\ codec.op = "none"
       /\ \E values \in CodecArrays : EncodeInt64ArrayCall(values)
    \/ \E n \in {Len(codec.data) - 1, Len(codec.data)} : DecodeInt64ArrayCall(n)

SpecCodec == CodecSpecInit /\ [][CodecNext]_vars

(***************************************************************************)
(* DQPinPartition.Init or InterChipSwitch.Init applied once, to a new      *)
(* object, with arbitrary arguments, the non-positive ones among them      *)
(***************************************************************************)
ChipCountArgs == (-1)..2

\* InterChipSwitch.Init: the switch gets a new partition, and a new crossbar
\* once the partition has been made
SwitchInit(numChips, totalDQPins, numChannels) ==
    /\ ~crashed
    /\ LET r == ICSInit(numChips, totalDQPins, numChannels)
       IN /\ ics' = [ics EXCEPT !.numChips = numChips]
          /\ dq' = r.dq
          /\ crossbar' = IF r.status = "ok" THEN r.cs ELSE crossbar
          /\ crashed' = (r.status = "panic")
          /\ lastOp' = Call("ICSInit", numChips, totalDQPins, numChannels, 0,
                            r.status = "ok", -1)
    /\ UNCHANGED <<issued, thrVars, irqVars, ringVars>>

SwitchInitNext ==
    \/ /\ lastOp.op = "none"
       /\ \E t \in PinArgs, n \in ChannelCountArgs : DQPartitionInit(t, n)
    \/ /\ lastOp.op = "none"
       /\ \E c \in ChipCountArgs, t \in PinArgs, n \in ChannelCountArgs :
             SwitchInit(c, t, n)

SpecSwitchInit == DQSpecInit /\ [][SwitchInitNext]_vars

(***************************************************************************)
(* The inter-chip switch with several DQ channels: transfers between every *)
(* pair of chips on every channel                                          *)
(***************************************************************************)
ChanChannels == 2

ChannelSpecInit ==
    LET r == ICSInit(NumChips, ChanChannels * PinsPerDQChannel, ChanChannels)
    IN /\ r.status = "ok"
       /\ ics = r.ics
       /\ dq = r.dq
       /\ crossbar = r.cs
       /\ lastOp = NoOp
       /\ issued = <<>>
       /\ crashed = FALSE
       /\ ThreadsIdle
       /\ IRQIdle
       /\ RingIdle

ChannelArgs ==
    {<<src, dst, ch, 1>> : src \in 0..(NumChips - 1), dst \in 0..(NumChips - 1),
                           ch \in 0..(ChanChannels - 1)}

ChannelNext ==
    \/ \E a \in ChannelArgs : StartTransfer(a[1], a[2], a[3], a[4])
    \/ \E id \in TransferArgs : CompleteTransfer(id)
    \/ Cycle

SpecChannels == ChannelSpecInit /\ [][ChannelNext]_vars

(***************************************************************************)
(* Inter-rank queue, progress: traffic as for the bandwidth of the bus,    *)
(* and Cycle called again and again for ever; the cycle counter is kept in *)
(* LiveCycleBits bits                                                      *)
(***************************************************************************)
LiveCycleBits == 2

\* Cycle, with no cap on the number of calls
LiveCycle ==
    /\ irq' = [IRQCycle(irq) EXCEPT !.cycles = @ % (2 ^ LiveCycleBits)]
    /\ lastOp' = Call("QueueCycle", Len(irq.messageQueue) - Len(irq'.messageQueue),
                      0, 0, 0, TRUE, -1)
    /\ readResult' = <<>>
    /\ delivered' = TrackDelivered(delivered, lastOp', irq, irq')
    /\ UNCHANGED <<ledger, crossbar, ics, dq, issued, crashed, thrVars, ringVars>>

LiveNext ==
    \/ \E len \in FlowLenArgs : FlowBroadcast(len)
    \/ \E len \in FlowLenArgs : FlowSendPointToPoint(len)
    \/ LiveCycle

\* the caller keeps calling Cycle
SpecIRQLive == IRQSpecInit /\ [][LiveNext]_vars /\ WF_vars(LiveCycle)

(***************************************************************************)
(* RingAllReduce and RingAllReduceSimple: on a ring of 0 to RingMaxNodes   *)
(* nodes one call of either is made, a round at a time                     *)
(***************************************************************************)
\* RingAllReduceSimple up to its loop: the length check, and the sum or the
\* copy of the values
AllReduceSimpleCall(initialValues, op) ==
    /\ ~crashed
    /\ allReduce.phase = "idle"
    /\ allReduce' =
          IF Len(initialValues) # ring.numNodes
          THEN [NoRun EXCEPT !.phase = "simpleReturned", !.op = op,
                             !.initialValues = initialValues, !.err = "length"]
          ELSE IF op = SUM
          THEN [NoRun EXCEPT !.phase = "simple", !.op = op,
                             !.initialValues = initialValues,
                             !.result = <<SumLoop(initialValues, 1, 0)>>]
          ELSE [NoRun EXCEPT !.phase = "simple", !.op = op,
                             !.initialValues = initialValues,
                             !.nodeValues = initialValues]
    /\ UNCHANGED <<ring, net, rst, rsCall, crashed, ringFrame>>

\* one round of the loop of RingAllReduceSimple: what SendToNext and
\* RunUntilEmpty return is not looked at
AllReduceSimpleRound(failAt, drained) ==
    /\ ~crashed
    /\ allReduce.phase = "simple"
    /\ allReduce.step < ring.numNodes - 1
    /\ LET r == SendAllUnchecked(ring, 0, failAt)
       IN /\ ring' = r.rt
          /\ net' = NetRound(net, r.calls, TRUE, drained)
    /\ allReduce' =
          IF allReduce.op = SUM
          THEN [allReduce EXCEPT !.step = @ + 1]
          ELSE [allReduce EXCEPT !.nodeValues = SimpleRound(ring, @, allReduce.op),
                                 !.step = @ + 1]
    /\ UNCHANGED <<crashed, rst, rsCall, ringFrame>>

\* the end of RingAllReduceSimple: totalSum, or currentValues[0], which
\* panics on the empty slice
AllReduceSimpleReturn ==
    /\ ~crashed
    /\ allReduce.phase = "simple"
    /\ allReduce.step >= ring.numNodes - 1
    /\ IF allReduce.op # SUM /\ Len(allReduce.nodeValues) = 0
       THEN /\ crashed' = TRUE
            /\ UNCHANGED allReduce
       ELSE /\ allReduce' =
                  [allReduce EXCEPT !.phase = "simpleReturned",
                                    !.result = IF allReduce.op = SUM THEN @
                                               ELSE <<allReduce.nodeValues[1]>>]
            /\ UNCHANGED crashed
    /\ UNCHANGED <<ring, net, rst, rsCall, ringFrame>>

RingSimpleNext ==
    \/ /\ allReduce.phase = "idle"
       /\ \E initialValues \in RingInputs(ring.numNodes), op \in RingOps :
             AllReduceCall(initialValues, op)
    \/ \E failAt \in FailAtArgs, drained \in BOOLEAN : AllReduceScatter(failAt, drained)
    \/ AllReduceScatterDone
    \/ \E failAt \in FailAtArgs, drained \in BOOLEAN : AllReduceGather(failAt, drained)
    \/ AllReduceReturn
    \/ /\ allReduce.phase = "idle"
       /\ \E initialValues \in RingInputs(ring.numNodes), op \in RingOps :
             AllReduceSimpleCall(initialValues, op)
    \/ \E failAt \in FailAtArgs, drained \in BOOLEAN : AllReduceSimpleRound(failAt, drained)
    \/ AllReduceSimpleReturn

SpecRingSimple == RingSpecInit /\ [][RingSimpleNext]_vars

(***************************************************************************)
(* Properties of the crossbar                                              *)
(***************************************************************************)
InRange(cs, i, o) == i \in DOMAIN cs.connections /\ o \in DOMAIN cs.reverseConnections

\* C1: after any sequence of Connect, Disconnect and DisconnectAll calls,
\* connections[i] = o holds if and only if reverseConnections[o] = i, for
\* every input i and output o; so no output is held by two inputs and no
\* input holds two outputs.
C1_ForwardReverseConsistent ==
    \A i \in DOMAIN crossbar.connections, o \in DOMAIN crossbar.reverseConnections :
        (crossbar.connections[i] = o) <=> (crossbar.reverseConnections[o] = i)

\* C1 witness: an input was re-pointed while another connection is in place
C1_Witness ==
    /\ lastOp.op = "Connect" /\ lastOp.ok
    /\ lastOp.c # NONE
    /\ CrossbarActiveConnections(crossbar) >= 2

\* C2: Connect(in, out) with in-range indices, called while out is held by an
\* input different from in, returns false, increments blocked_attempts by
\* exactly one and leaves connections, reverseConnections and total_switches
\* unchanged.
C2_BusyOutputBlocks ==
    [][ ( /\ lastOp'.op = "Connect"
          /\ InRange(crossbar, lastOp'.a, lastOp'.b)
          /\ crossbar.reverseConnections[lastOp'.b] \notin {NONE, lastOp'.a} )
        => ( /\ lastOp'.ok = FALSE
             /\ crossbar'.blockedAttempts = crossbar.blockedAttempts + 1
             /\ crossbar'.connections = crossbar.connections
             /\ crossbar'.reverseConnections = crossbar.reverseConnections
             /\ crossbar'.totalSwitches = crossbar.totalSwitches ) ]_vars

\* C2 witness: connect(0, o) succeeded, connect(1, o) was refused:
\* blocked_attempts = 1, total_switches = 1
C2_Witness ==
    /\ lastOp.op = "Connect" /\ lastOp.ok = FALSE
    /\ InRange(crossbar, lastOp.a, lastOp.b)
    /\ crossbar.reverseConnections[lastOp.b] \notin {NONE, lastOp.a}
    /\ crossbar.blockedAttempts = 1
    /\ crossbar.totalSwitches = 1

\* C3: Connect(in, out2) called while in holds out1 # out2 and out2 is free
\* returns true; afterwards in is connected to out2 only, out1 is free and
\* can be taken by another input, every other connection is unchanged and
\* total_switches has grown by one.
C3_RepointInput ==
    [][ ( /\ lastOp'.op = "Connect"
          /\ InRange(crossbar, lastOp'.a, lastOp'.b)
          /\ crossbar.connections[lastOp'.a] \notin {NONE, lastOp'.b}
          /\ crossbar.reverseConnections[lastOp'.b] = NONE )
        => LET in   == lastOp'.a
               out2 == lastOp'.b
               out1 == crossbar.connections[in]
           IN /\ lastOp'.ok = TRUE
              /\ crossbar'.connections = [crossbar.connections EXCEPT ![in] = out2]
              /\ crossbar'.reverseConnections =
                     [crossbar.reverseConnections EXCEPT ![out1] = NONE, ![out2] = in]
              /\ \A j \in DOMAIN crossbar.connections :
                     CrossbarConnect(crossbar', j, out1).ok
              /\ crossbar'.totalSwitches = crossbar.totalSwitches + 1
              /\ crossbar'.blockedAttempts = crossbar.blockedAttempts ]_vars

\* C3 witness: an input moved from out1 to another output while a second
\* input keeps its own connection
C3_Witness ==
    /\ lastOp.op = "Connect" /\ lastOp.ok
    /\ lastOp.c \notin {NONE, lastOp.b}
    /\ crossbar.connections[lastOp.a] = lastOp.b
    /\ crossbar.reverseConnections[lastOp.c] = NONE
    /\ \E j \in DOMAIN crossbar.connections :
           j # lastOp.a /\ crossbar.connections[j] # NONE

\* C28: Connect(in, out) with in-range indices returns true whenever out is
\* free or already held by in itself; it fails, and counts a blocked
\* attempt, only when an input different from in holds out.
C28_OnlyAnotherInputBlocks ==
    [][ ( /\ lastOp'.op = "Connect"
          /\ InRange(crossbar, lastOp'.a, lastOp'.b) )
        => LET free == crossbar.reverseConnections[lastOp'.b] \in {NONE, lastOp'.a}
           IN /\ lastOp'.ok = free
              /\ crossbar'.blockedAttempts =
                     crossbar.blockedAttempts + (IF free THEN 0 ELSE 1) ]_vars

(***************************************************************************)
(* Properties of the inter-chip switch                                     *)
(***************************************************************************)
ChipInRange(c) == c >= 0 /\ c < ics.numChips

StartArgsInRange(src, dst, ch) ==
    ChipInRange(src) /\ ChipInRange(dst) /\ ch >= 0 /\ ch < dq.numChannels

\* C6: StartTransfer returns an error and id -1 when src_chip, dst_chip or
\* channel_id is out of range or when the destination chip's crossbar output
\* is busy; in every failing case no transfer is recorded, no transfer id is
\* consumed, total_transfers and total_bytes are unchanged and the crossbar
\* connections are unchanged; for an out-of-range argument the crossbar's
\* blocked counter is unchanged as well.
C6_FailedStartChangesNothing ==
    [][ lastOp'.op = "StartTransfer" =>
        LET src == lastOp'.a
            dst == lastOp'.b
            ch  == lastOp'.c
            outOfRange == ~StartArgsInRange(src, dst, ch)
            busy == ChipInRange(dst) /\ crossbar.reverseConnections[dst] # NONE
        IN /\ (outOfRange \/ busy) => (lastOp'.ok = FALSE /\ lastOp'.id = -1)
           /\ lastOp'.ok = FALSE =>
                 /\ lastOp'.id = -1
                 /\ ics' = ics
                 /\ crossbar'.connections = crossbar.connections
                 /\ crossbar'.reverseConnections = crossbar.reverseConnections
                 /\ crossbar'.totalSwitches = crossbar.totalSwitches
           /\ outOfRange => crossbar'.blockedAttempts = crossbar.blockedAttempts
      ]_vars

\* C6 witness: a StartTransfer with valid arguments was refused because the
\* destination is busy with an active transfer
C6_Witness ==
    /\ lastOp.op = "StartTransfer" /\ lastOp.ok = FALSE
    /\ StartArgsInRange(lastOp.a, lastOp.b, lastOp.c)
    /\ crossbar.blockedAttempts = 1
    /\ \E t \in DOMAIN ics.activeTransfers :
           ics.activeTransfers[t].DstChipID = lastOp.b

\* C7: each successful StartTransfer records an active transfer with
\* start_cycle equal to the switch's current cycle count and end_cycle = -1,
\* and returns an id distinct from every id returned before: the ids of the
\* successful calls are 0, 1, 2, ... in call order, whatever failed
\* StartTransfer, CompleteTransfer or Cycle calls come in between.
C7_TransferIdsCountSuccesses ==
    [][ (lastOp'.op = "StartTransfer" /\ lastOp'.ok) =>
        LET id == lastOp'.id
        IN /\ id = Len(issued)
           /\ \A k \in 1..Len(issued) : issued[k] # id
           /\ id \notin DOMAIN ics.activeTransfers
           /\ DOMAIN ics'.activeTransfers = DOMAIN ics.activeTransfers \cup {id}
           /\ ics'.activeTransfers[id] =
                 [TransferID |-> id, SrcChipID |-> lastOp'.a, DstChipID |-> lastOp'.b,
                  ChannelID |-> lastOp'.c, DataLen |-> lastOp'.d,
                  StartCycle |-> ics.cycles, EndCycle |-> -1]
      ]_vars

\* C7 witness: a second transfer started at cycle 1 after the first one was
\* completed; it got id 1
C7_Witness ==
    /\ lastOp.op = "StartTransfer" /\ lastOp.ok /\ lastOp.id = 1
    /\ issued = <<0, 1>>
    /\ DOMAIN ics.activeTransfers = {1}
    /\ ics.activeTransfers[1].StartCycle = 1

\* C8 (as claimed): CompleteTransfer(id) of an active transfer removes exactly
\* that transfer and tears down exactly that transfer's src->dst crossbar
\* connection, every other active transfer and every other crossbar
\* connection being unchanged; CompleteTransfer of an unknown or completed id
\* returns an error and changes nothing.
C8_CompleteTearsDownOwnConnectionOnly ==
    [][ lastOp'.op = "CompleteTransfer" =>
        LET id == lastOp'.a
        IN IF id \in DOMAIN ics.activeTransfers
           THEN LET T == ics.activeTransfers[id]
                IN /\ lastOp'.ok
                   /\ ics'.activeTransfers = MapDelete(ics.activeTransfers, id)
                   /\ \A i \in DOMAIN crossbar.connections :
                         crossbar'.connections[i] =
                            IF i = T.SrcChipID /\ crossbar.connections[i] = T.DstChipID
                            THEN NONE ELSE crossbar.connections[i]
                   /\ \A o \in DOMAIN crossbar.reverseConnections :
                         crossbar'.reverseConnections[o] =
                            IF o = T.DstChipID /\ crossbar.reverseConnections[o] = T.SrcChipID
                            THEN NONE ELSE crossbar.reverseConnections[o]
           ELSE lastOp'.ok = FALSE /\ ics' = ics /\ crossbar' = crossbar
      ]_vars

C31_TransfersMatchConnections ==
    LET active == ics.activeTransfers
    IN /\ \A id \in DOMAIN active :
             crossbar.connections[active[id].SrcChipID] = active[id].DstChipID
       /\ \A id1, id2 \in DOMAIN active :
             id1 # id2 => active[id1].SrcChipID # active[id2].SrcChipID
       /\ CrossbarActiveConnections(crossbar) = Cardinality(DOMAIN active)

\* C32: transfers on different DQ channels are independent: a StartTransfer
\* on channel c2 to chip d, called while no transfer is active on c2,
\* succeeds although a transfer on another channel c1 to the same chip d is
\* still active.
C32_ChannelsAreIndependent ==
    [][ ( /\ lastOp'.op = "StartTransfer"
          /\ StartArgsInRange(lastOp'.a, lastOp'.b, lastOp'.c)
          /\ \A id \in DOMAIN ics.activeTransfers :
                ics.activeTransfers[id].ChannelID # lastOp'.c
          /\ \E id \in DOMAIN ics.activeTransfers :
                ics.activeTransfers[id].DstChipID = lastOp'.b )
        => lastOp'.ok ]_vars

C4_NoLostCycle ==
    (\A t \in Threads : pc[t] # "cycle") => crossbar.cycles = cycleCalls

(***************************************************************************)
(* Properties of the inter-rank queue                                      *)
(***************************************************************************)
\* number of occurrences of message m in the list b
Count(b, m) == Cardinality({i \in DOMAIN b : b[i] = m})

C11_UnicastFanOut ==
    [][ lastOp'.op = "QueueCycle" =>
        LET n == Len(irq.messageQueue) - Len(irq'.messageQueue)
        IN /\ n >= 0
           /\ \A i \in 1..n :
                 LET m == irq.messageQueue[i]
                 IN m.DestinationRank # BROADCAST =>
                       \A key \in (DOMAIN irq'.pendingMessages) \cup ValidCoords :
                          /\ key \in DOMAIN irq'.pendingMessages
                          /\ Count(irq'.pendingMessages[key], m)
                               = Count(Bucket(irq.pendingMessages, key), m)
                                 + (IF InGrid(irq, key) /\ key[2] = m.DestinationRank
                                    THEN 1 ELSE 0)
           /\ \A key \in DOMAIN irq'.pendingMessages :
                 (\A i \in 1..n : ~Targets(irq, irq.messageQueue[i], key))
                    => /\ key \in DOMAIN irq.pendingMessages
                       /\ irq'.pendingMessages[key] = irq.pendingMessages[key]
      ]_vars

\* C11 witness: a Cycle has drained a unicast message sent to rank r through
\* the last channel; it sits once in bucket (ch, r) of every channel and in no
\* bucket of another rank
C11_Witness ==
    /\ lastOp.op = "QueueCycle" /\ lastOp.a >= 1
    /\ irq.numChannels >= 2
    /\ \E r \in 0..(irq.numRanks - 1) :
          LET m == [SourceRank |-> 0, DestinationRank |-> r, DataLen |-> 1,
                    Timestamp |-> 0, MessageID |-> 0]
          IN \A key \in ValidCoords :
                Count(irq.pendingMessages[key], m) = (IF key[2] = r THEN 1 ELSE 0)

(***************************************************************************)
(* Properties of the inter-rank bus bandwidth                              *)
(***************************************************************************)
\* cumulative payload size of the first k messages of the list queue
RECURSIVE PayloadSum(_, _)
PayloadSum(queue, k) ==
    IF k = 0 THEN 0 ELSE PayloadSum(queue, k - 1) + queue[k].DataLen

\* length of the longest prefix of queue whose cumulative payload size is at
\* most bandwidth
LongestFittingPrefix(queue, bandwidth) ==
    LET fit == {k \in 0..Len(queue) : PayloadSum(queue, k) <= bandwidth}
    IN IF fit = {} THEN 0 ELSE CHOOSE k \in fit : \A j \in fit : j <= k

\* the messages among the first n of the queue that go to bucket key, in order
DeliveredTo(q, key, n) ==
    SelectSeq(SubSeq(q.messageQueue, 1, n), LAMBDA m : Targets(q, m, key))

\* C12 (as claimed): every Cycle delivers and removes exactly the longest
\* prefix of the FIFO whose cumulative payload size is at most the bandwidth:
\* the queue loses that prefix and every bucket gains, in order, the messages
\* of that prefix addressed to it, and nothing else.
C12_LongestFittingPrefix ==
    [][ lastOp'.op = "QueueCycle" =>
        LET n == LongestFittingPrefix(irq.messageQueue, irq.bandwidth)
        IN /\ irq'.messageQueue = SubSeq(irq.messageQueue, n + 1, Len(irq.messageQueue))
           /\ DOMAIN irq'.pendingMessages = DOMAIN irq.pendingMessages
           /\ \A key \in DOMAIN irq.pendingMessages :
                 irq'.pendingMessages[key]
                    = irq.pendingMessages[key] \o DeliveredTo(irq, key, n)
      ]_vars

\* C33: in every Cycle the payload sizes of the messages delivered add up to
\* at most the bandwidth, and every message is delivered whole or not at
\* all: the messages taken off the FIFO are a prefix of it, each appears in
\* its buckets as it was enqueued, and the rest of the FIFO, the message
\* that did not fit in the remaining budget first, is left unmodified.
C33_WholeMessagesWithinBandwidth ==
    [][ lastOp'.op = "QueueCycle" =>
        LET n == Len(irq.messageQueue) - Len(irq'.messageQueue)
        IN /\ n >= 0
           /\ PayloadSum(irq.messageQueue, n) <= irq.bandwidth
           /\ irq'.messageQueue = SubSeq(irq.messageQueue, n + 1, Len(irq.messageQueue))
           /\ \A key \in DOMAIN irq.pendingMessages :
                 irq'.pendingMessages[key]
                    = irq.pendingMessages[key] \o DeliveredTo(irq, key, n)
      ]_vars

\* C33 witness: a Cycle has delivered a message and left behind another that
\* was in the FIFO before the call and would have fitted in a cycle of its
\* own, but not in what remained of this one
C33_Witness ==
    /\ lastOp.op = "QueueCycle" /\ lastOp.a >= 1
    /\ Len(irq.messageQueue) >= 1
    /\ irq.messageQueue[1].Timestamp < irq.cycles
    /\ irq.messageQueue[1].DataLen >= 1
    /\ irq.messageQueue[1].DataLen <= irq.bandwidth

\* the queue after k more calls of Cycle and nothing else
RECURSIVE CycleTimes(_, _)
CycleTimes(q, k) == IF k = 0 THEN q ELSE CycleTimes(IRQCycle(q), k - 1)

\* every message in the FIFO has a payload that fits in one cycle
AllFit(q) == \A i \in DOMAIN q.messageQueue : q.messageQueue[i].DataLen <= q.bandwidth

\* C34: with bandwidth >= 1 and every queued payload at most bandwidth,
\* every Cycle on a non-empty FIFO delivers at least the head message, and a
\* FIFO holding k messages is empty (IsEmpty true) after at most k Cycle
\* calls when nothing is enqueued in between.
C34_DrainsInKCycles ==
    /\ [](irq.bandwidth >= 1 /\ AllFit(irq) =>
             IRQIsEmpty(CycleTimes(irq, Len(irq.messageQueue))))
    /\ [][ ( /\ lastOp'.op = "QueueCycle"
             /\ irq.bandwidth >= 1 /\ AllFit(irq)
             /\ ~IRQIsEmpty(irq) )
           => /\ Len(irq'.messageQueue) < Len(irq.messageQueue)
              /\ irq'.messageQueue = SubSeq(irq.messageQueue, lastOp'.a + 1,
                                            Len(irq.messageQueue))
              /\ \A key \in DOMAIN irq.pendingMessages :
                    Targets(irq, irq.messageQueue[1], key) =>
                        Len(irq'.pendingMessages[key]) > Len(irq.pendingMessages[key])
         ]_vars

\* C34 witness: three messages enqueued before the first Cycle, each fitting
\* in a cycle, have all been delivered by the second Cycle, which has left
\* the FIFO empty
C34_Witness ==
    /\ lastOp.op = "QueueCycle" /\ lastOp.a >= 1
    /\ irq.cycles = 2 /\ IRQIsEmpty(irq)
    /\ LET b == irq.pendingMessages[makeKey(0, IRQRanks - 1)]
       IN /\ Len(b) = 3
          /\ \A i \in DOMAIN b : b[i].Timestamp = 0 /\ b[i].DataLen >= 1

(***************************************************************************)
(* Properties of the order of delivery                                     *)
(***************************************************************************)
\* the message ids of the list b are strictly increasing
IncreasingIds(b) ==
    \A i \in DOMAIN b, j \in DOMAIN b : i < j => b[i].MessageID < b[j].MessageID

\* C13: in every reachable state the messages of every bucket are in enqueue
\* order (strictly increasing message id), and so are the messages still in
\* the FIFO, which were all enqueued after every delivered one; the list a
\* Read has returned is in that order too.
C13_StrictFifo ==
    /\ IncreasingIds(irq.messageQueue)
    /\ \A key \in DOMAIN irq.pendingMessages :
          /\ IncreasingIds(irq.pendingMessages[key])
          /\ \A i \in DOMAIN irq.pendingMessages[key], j \in DOMAIN irq.messageQueue :
                irq.pendingMessages[key][i].MessageID < irq.messageQueue[j].MessageID
    /\ IncreasingIds(readResult)
    /\ \A i \in DOMAIN readResult, j \in DOMAIN irq.messageQueue :
          readResult[i].MessageID < irq.messageQueue[j].MessageID

\* C13 witness: a Read returns two messages delivered by different Cycle
\* calls: message 0, enqueued before the first Cycle, and a message enqueued
\* after it
C13_Witness ==
    /\ lastOp.op = "Read" /\ lastOp.ok
    /\ Len(readResult) >= 2
    /\ readResult[1].MessageID = 0 /\ readResult[1].Timestamp = 0
    /\ readResult[1].DataLen <= irq.bandwidth
    /\ readResult[2].Timestamp >= 1

(***************************************************************************)
(* Properties of the capacity of the inter-rank queue                      *)
(***************************************************************************)
\* the last call was an enqueue with coordinates inside the grid
EnqueueInRange(op) ==
    \/ /\ op.op = "Broadcast"
       /\ validateRankCoordinates(irq, op.a, op.b)
    \/ /\ op.op = "SendPointToPoint"
       /\ validateRankCoordinates(irq, op.a, op.b)
       /\ validateRankCoordinates(irq, op.c, op.d)

\* the message an enqueue call described by op puts on the queue q
EnqueuedMessage(q, op) ==
    [SourceRank |-> op.b,
     DestinationRank |-> IF op.op = "Broadcast" THEN BROADCAST ELSE op.d,
     DataLen |-> IF op.op = "Broadcast" THEN op.c ELSE op.id,
     Timestamp |-> q.cycles,
     MessageID |-> q.messageIDCounter]

\* C14: the FIFO never holds more than 128 messages.  A Broadcast or
\* SendPointToPoint with valid coordinates returns an error and changes
\* nothing of the queue object when 128 messages are queued; with fewer
\* queued it succeeds, appends exactly one message at the tail, and changes
\* neither the messages already queued nor any bucket.
C14_CapacityIs128 ==
    /\ [](Len(irq.messageQueue) <= 128)
    /\ [][ EnqueueInRange(lastOp') =>
             IF Len(irq.messageQueue) >= 128
             THEN ~lastOp'.ok /\ irq' = irq
             ELSE /\ lastOp'.ok
                  /\ irq'.messageQueue
                        = Append(irq.messageQueue, EnqueuedMessage(irq, lastOp'))
                  /\ irq'.pendingMessages = irq.pendingMessages
                  /\ irq'.messageIDCounter = irq.messageIDCounter + 1
         ]_vars

\* C14 witness: an enqueue with valid coordinates has just been refused with
\* 128 messages queued, after a Cycle had made room and the queue was filled
\* again
C14_Witness ==
    /\ EnqueueInRange(lastOp) /\ ~lastOp.ok
    /\ Len(irq.messageQueue) = 128
    /\ irq.cycles >= 1
    /\ irq.messageIDCounter > 128

(***************************************************************************)
(* Properties of the buckets of the inter-rank queue                       *)
(***************************************************************************)
\* C15: in every reachable state and for every valid (ch, r),
\* GetPendingCount(ch, r) succeeds and returns the number of messages
\* delivered into bucket (ch, r) since that bucket was last read or cleared;
\* the count the last GetPendingCount call returned is that number.
C15_PendingCountIsDelivered ==
    /\ \A key \in ValidCoords :
          LET r == IRQGetPendingCount(irq, key[1], key[2])
          IN r.err = "" /\ r.count = delivered[key]
    /\ (lastOp.op = "GetPendingCount" /\ <<lastOp.a, lastOp.b>> \in ValidCoords)
          => lastOp.ok /\ lastOp.c = delivered[<<lastOp.a, lastOp.b>>]

\* C15 witness: GetPendingCount returns 1 for the bucket of the last rank in
\* channel 0 while the bucket of that rank in the last channel, which gets
\* the same deliveries, holds two messages: the first bucket was read or
\* cleared between the two deliveries
C15_Witness ==
    /\ lastOp.op = "GetPendingCount" /\ lastOp.ok
    /\ lastOp.a = 0 /\ lastOp.b = IRQRanks - 1 /\ lastOp.c = 1
    /\ IRQChannels >= 2
    /\ Len(irq.pendingMessages[<<IRQChannels - 1, IRQRanks - 1>>]) = 2
    /\ irq.cycles = 2

\* C16: a Read on valid coordinates succeeds, returns the messages pending in
\* its bucket in their order and empties that bucket, so that the same Read
\* made again at once returns the empty list; every other bucket, the FIFO
\* and every counter of the queue object are as before.
C16_ReadTakesItsBucketOnly ==
    [][ (lastOp'.op = "Read" /\ validateRankCoordinates(irq, lastOp'.a, lastOp'.b)) =>
          LET key == makeKey(lastOp'.a, lastOp'.b)
          IN /\ lastOp'.ok
             /\ key \in DOMAIN irq.pendingMessages
             /\ readResult' = irq.pendingMessages[key]
             /\ irq' = [irq EXCEPT !.pendingMessages[key] = <<>>]
             /\ LET again == IRQRead(irq', lastOp'.a, lastOp'.b)
                IN again.err = "" /\ again.msgs = <<>> /\ again.irq = irq'
      ]_vars

\* C16 witness: a Read has returned a message while another bucket holds a
\* message and the FIFO is not empty
C16_Witness ==
    /\ lastOp.op = "Read" /\ lastOp.ok
    /\ Len(readResult) >= 1
    /\ irq.pendingMessages[makeKey(lastOp.a, lastOp.b)] = <<>>
    /\ \E key \in DOMAIN irq.pendingMessages : Len(irq.pendingMessages[key]) >= 1
    /\ Len(irq.messageQueue) >= 1

(***************************************************************************)
(* Properties of the coordinate checks of the inter-rank queue             *)
(***************************************************************************)
\* the call op has a channel or a rank outside the grid of the queue q
OutOfGridCall(q, op) ==
    \/ /\ op.op \in {"Broadcast", "Read", "GetPendingCount"}
       /\ ~validateRankCoordinates(q, op.a, op.b)
    \/ /\ op.op = "SendPointToPoint"
       /\ (~validateRankCoordinates(q, op.a, op.b) \/ ~validateRankCoordinates(q, op.c, op.d))

\* the error the method of the call op returns on the queue q
ErrorOf(q, op) ==
    IF op.op = "Broadcast" THEN IRQBroadcast(q, op.a, op.b, op.c).err
    ELSE IF op.op = "SendPointToPoint"
    THEN IRQSendPointToPoint(q, op.a, op.b, op.c, op.d, op.id).err
    ELSE IF op.op = "Read" THEN IRQRead(q, op.a, op.b).err
    ELSE IRQGetPendingCount(q, op.a, op.b).err

\* C17: Broadcast, SendPointToPoint (source or destination), Read and
\* GetPendingCount with a channel or a rank outside the grid return an error
\* and leave the queue object as it was; the error is the range error, also
\* when the FIFO is full; a refused Read returns no message and a refused
\* GetPendingCount returns 0.
C17_OutOfRangeIsRefused ==
    [][ OutOfGridCall(irq, lastOp') =>
          /\ ~lastOp'.ok
          /\ irq' = irq
          /\ ErrorOf(irq, lastOp') \in {"invalid", "invalid source", "invalid destination"}
          /\ readResult' = <<>>
          /\ lastOp'.op = "GetPendingCount" => lastOp'.c = 0
      ]_vars

\* C17 witness: a SendPointToPoint with a destination outside the grid has
\* been refused while 128 messages were queued
C17_Witness ==
    /\ lastOp.op = "SendPointToPoint" /\ ~lastOp.ok
    /\ validateRankCoordinates(irq, lastOp.a, lastOp.b)
    /\ ~validateRankCoordinates(irq, lastOp.c, lastOp.d)
    /\ Len(irq.messageQueue) = 128

(***************************************************************************)
(* Properties of InterRankControlQ.Init                                    *)
(***************************************************************************)
\* C18: Init panics when num_channels, num_ranks or bus_width is not
\* positive, whatever the bandwidth; otherwise it succeeds and leaves the
\* configuration it was given, an empty FIFO, zeroed counters and exactly one
\* empty bucket for each (ch, rank) with 0 <= ch < num_channels and
\* 0 <= rank < num_ranks, whatever the object held before.
C18_InitChecksDimensions ==
    [][ lastOp'.op = "Init" =>
          IF lastOp'.a <= 0 \/ lastOp'.b <= 0 \/ lastOp'.c <= 0
          THEN crashed' /\ ~lastOp'.ok
          ELSE /\ lastOp'.ok /\ ~crashed'
               /\ irq'.numChannels = lastOp'.a /\ irq'.numRanks = lastOp'.b
               /\ irq'.busWidth = lastOp'.c /\ irq'.bandwidth = lastOp'.d
               /\ irq'.bufferSize = 128
               /\ irq'.messageQueue = <<>>
               /\ irq'.totalMessages = 0 /\ irq'.totalBroadcasts = 0
               /\ irq'.totalBytesTransferred = 0 /\ irq'.cycles = 0
               /\ irq'.messageIDCounter = 0
               /\ DOMAIN irq'.pendingMessages
                     = {<<ch, r>> : ch \in 0..(lastOp'.a - 1), r \in 0..(lastOp'.b - 1)}
               /\ \A key \in DOMAIN irq'.pendingMessages : irq'.pendingMessages[key] = <<>>
      ]_vars

\* C18 witness: an Init with a non-positive bus width has panicked on an
\* object that an earlier Init had set up with several channels and ranks and
\* that has delivered a message since
C18_Witness ==
    /\ lastOp.op = "Init" /\ ~lastOp.ok /\ crashed
    /\ lastOp.a >= 1 /\ lastOp.b >= 1 /\ lastOp.c <= 0
    /\ irq.numChannels >= 2 /\ irq.numRanks >= 2
    /\ \E key \in DOMAIN irq.pendingMessages : Len(irq.pendingMessages[key]) >= 1

(***************************************************************************)
(* Properties of the inter-rank queue shared by threads                    *)
(***************************************************************************)
\* thread t is inside a call that holds irq.mu for writing
Writing(t) == pc[t] \in {"locked", "append", "truncate", "reset"}

\* what bucket key has received so far, oldest first: what Read and Clear
\* took out of it and what it holds
Received(key) == ledger.taken[key] \o Bucket(irq.pendingMessages, key)

\* the messages among the first n enqueued that have key as a destination
Addressed(key, n) ==
    LET ToKey(m) == Targets(irq, m, key)
    IN SelectSeq(SubSeq(ledger.sent, 1, n), ToKey)

\* C19: with the queue shared by threads, every operation is atomic (the
\* calls that write exclude each other and the readers, and what a call saw
\* under the lock still holds when it acts on it); between Cycle calls every
\* message that was enqueued is either still in the FIFO, once, and in no
\* bucket, or it has left the FIFO and has been appended exactly once to the
\* bucket of each of its destinations and to no other bucket: the FIFO is
\* the tail of what was enqueued and each bucket has received, once each,
\* the messages of the head that are addressed to it.  No message is lost,
\* duplicated or made up, the FIFO never holds more than 128 messages, and
\* no call panics.
C19_AtomicNoLossNoDuplicate ==
    /\ ~crashed
    /\ Len(irq.messageQueue) <= BufferSize
    /\ \A t \in Threads : Writing(t) => mu = t /\ readers = {}
    /\ \A t, u \in Threads : Writing(t) /\ Writing(u) => t = u
    /\ \A t \in Threads :
          /\ pc[t] = "append" => Len(irq.messageQueue) < BufferSize
          /\ pc[t] = "truncate" => reg[t] <= Len(irq.messageQueue)
          /\ pc[t] = "reset" =>
                reg[t] = Bucket(irq.pendingMessages, makeKey(call[t].a, call[t].b))
    /\ \A i \in DOMAIN ledger.sent : ledger.sent[i].MessageID = i - 1
    /\ (\A t \in Threads : pc[t] # "truncate") =>
          /\ Len(irq.messageQueue) <= Len(ledger.sent)
          /\ LET n == Len(ledger.sent) - Len(irq.messageQueue)
             IN /\ irq.messageQueue = SubSeq(ledger.sent, n + 1, Len(ledger.sent))
                /\ \A key \in DOMAIN ledger.taken : Received(key) = Addressed(key, n)

\* C19 witness: the threads run on the queue the main thread had filled; a
\* Cycle has delivered messages, a Read or Clear has taken some out of their
\* bucket, others are still in a bucket, the threads have enqueued messages
\* up to the capacity, and a thread that holds the lock is about to be refused
C19_Witness ==
    /\ Len(irq.messageQueue) = BufferSize
    /\ \E key \in DOMAIN ledger.taken : Len(ledger.taken[key]) >= 1
    /\ \E key \in DOMAIN irq.pendingMessages : Len(irq.pendingMessages[key]) >= 1
    /\ \E t \in Threads : pc[t] = "locked" /\ call[t].op = "SendPointToPoint"
    /\ \E t \in Threads : pc[t] = "idle"

(***************************************************************************)
(* Properties of the ring all-reduce                                       *)
(***************************************************************************)
\* the sum of the values of a vector as int64 arithmetic gives it
RECURSIVE WrappedSum(_)
WrappedSum(v) == IF v = <<>> THEN 0 ELSE Wrap(v[1] + WrappedSum(Tail(v)))

\* C20: a RingAllReduce with op = SUM whose rounds have all drained returns
\* a vector of numNodes elements, each of them the sum of all the inputs
\* (wrapping as int64 addition does); inputs [1, 2, 3, 4] give 10 everywhere.
C20_AllReduceSum ==
    (allReduce.phase = "returned" /\ allReduce.err = "" /\ allReduce.op = SUM) =>
        /\ Len(allReduce.result) = ring.numNodes
        /\ \A i \in DOMAIN allReduce.result :
              allReduce.result[i] = WrappedSum(allReduce.initialValues)

\* the values a vector holds
ValuesOf(v) == {v[i] : i \in DOMAIN v}

\* C21: a RingAllReduce with op = MAX (MIN) whose rounds have all drained
\* returns a vector of numNodes elements, each of them the largest (smallest)
\* of the inputs, for every ring of one node or more and every input vector,
\* vectors with equal values included.
C21_AllReduceMaxMin ==
    (allReduce.phase = "returned" /\ allReduce.err = "" /\ allReduce.op \in {MAX, MIN}) =>
        /\ Len(allReduce.result) = ring.numNodes
        /\ ring.numNodes >= 1
        /\ \A i \in DOMAIN allReduce.result :
              /\ allReduce.result[i] \in ValuesOf(allReduce.initialValues)
              /\ \A x \in ValuesOf(allReduce.initialValues) :
                    IF allReduce.op = MAX THEN allReduce.result[i] >= x
                                          ELSE allReduce.result[i] <= x

\* C21 witness: a MAX over three nodes or more has returned; two inputs are
\* equal, and the largest input is neither the first nor the last
C21_Witness ==
    /\ allReduce.phase = "returned" /\ allReduce.err = "" /\ allReduce.op = MAX
    /\ ring.numNodes >= 3
    /\ \E i, j \in DOMAIN allReduce.initialValues :
          i # j /\ allReduce.initialValues[i] = allReduce.initialValues[j]
    /\ \E i \in 2..(ring.numNodes - 1) :
          \A j \in DOMAIN allReduce.initialValues \ {i} :
             allReduce.initialValues[j] < allReduce.initialValues[i]
    /\ \A i \in DOMAIN allReduce.result : allReduce.result[i] = allReduce.result[1]

\* the mesh position RingTopology.Init and ReduceScatterTopology.Init give node i
PositionOf(i) == [x |-> i \div 8, y |-> i % 8]

\* calls is one round of the ring: node i - 1, for i = 1..n, has made one
\* InjectPacket call, from its position to the position of node i mod n
RingRound(calls, n) ==
    /\ Len(calls) = n
    /\ \A i \in 1..n :
          /\ calls[i].srcX = PositionOf(i - 1).x /\ calls[i].srcY = PositionOf(i - 1).y
          /\ calls[i].dstX = PositionOf(i % n).x /\ calls[i].dstY = PositionOf(i % n).y

\* C22: a RingAllReduce on N nodes that succeeds has made exactly 2*(N-1)
\* injection rounds and total_messages has grown by 2*N*(N-1); in every round
\* that the call survives each node i has injected exactly one packet, to
\* node (i+1) mod N, the network has taken it, and the mesh has been run
\* until empty, as it had been after every earlier round.
C22_RoundsOfAllReduce ==
    /\ [](allReduce.phase = "returned" /\ allReduce.err = "" =>
             /\ net.rounds = 2 * (ring.numNodes - 1)
             /\ net.runs = net.rounds
             /\ ring.totalMessages = 2 * ring.numNodes * (ring.numNodes - 1)
             /\ net.injected = ring.totalMessages)
    /\ [][net'.rounds # net.rounds /\ allReduce'.phase # "returned" =>
             /\ net'.rounds = net.rounds + 1
             /\ net.runs = net.rounds
             /\ net'.runs = net'.rounds
             /\ RingRound(net'.calls, ring.numNodes)
             /\ \A i \in DOMAIN net'.calls : net'.calls[i].ok
             /\ ring'.totalMessages = ring.totalMessages + ring.numNodes
         ]_vars

\* C22 witness: a RingAllReduce on three nodes or more has returned its result
\* after the last of its 2*(N-1) rounds
C22_Witness ==
    /\ allReduce.phase = "returned" /\ allReduce.err = ""
    /\ ring.numNodes >= 3
    /\ net.rounds = 2 * (ring.numNodes - 1)
    /\ Len(net.calls) = ring.numNodes

\* C37: for every op, every ring of N >= 1 nodes and every input vector,
\* vectors with equal values included, a RingAllReduce that succeeds returns
\* a vector of N elements that are all equal to one another.
C37_AllNodesConverge ==
    (allReduce.phase = "returned" /\ allReduce.err = "") =>
        /\ ring.numNodes >= 1
        /\ Len(allReduce.result) = ring.numNodes
        /\ \A i, j \in DOMAIN allReduce.result : allReduce.result[i] = allReduce.result[j]

\* C37 witness: a SUM over three nodes or more whose inputs are not all the
\* same, two of them equal, has returned one value for every node
C37_Witness ==
    /\ allReduce.phase = "returned" /\ allReduce.err = "" /\ allReduce.op = SUM
    /\ ring.numNodes >= 3
    /\ allReduce.initialValues[1] = allReduce.initialValues[2]
    /\ allReduce.initialValues[2] # allReduce.initialValues[3]
    /\ Cardinality(ValuesOf(allReduce.result)) = 1

(***************************************************************************)
(* Properties of the collectives when the network fails                    *)
(***************************************************************************)
\* the collective call has returned an error and no result
ReturnedError(f) == f.phase = "returned" /\ f.err # "" /\ f.result = <<>>

\* C23: in RingAllReduce and in ReduceScatter, a round in which an injection
\* is refused or RunUntilEmpty(1000) returns false makes the call return an
\* error and no result; RunUntilEmpty is not called after a refused
\* injection; once the call has returned the error no packet is injected and
\* the mesh is not stepped; and total_messages counts exactly the packets the
\* network has taken up to that point.
C23_FailedRoundEndsTheCall ==
    /\ [](ring.totalMessages + rst.totalMessages = net.injected)
    /\ [][net'.rounds # net.rounds /\ net'.failed # net.failed =>
             /\ IF allReduce.phase # "idle"
                THEN ReturnedError(allReduce') /\ rsCall' = rsCall
                ELSE ReturnedError(rsCall') /\ allReduce' = allReduce
             /\ net'.injected = net.injected + Len(Taken(net'.calls))
             /\ Len(Taken(net'.calls)) < Len(net'.calls) => net'.runs = net.runs
         ]_vars
    /\ [][ReturnedError(allReduce) \/ ReturnedError(rsCall) =>
             /\ net' = net
             /\ ring'.totalMessages = ring.totalMessages
             /\ rst'.totalMessages = rst.totalMessages
         ]_vars

\* C23 witness: the second round of a ReduceScatter on three nodes has had
\* the packet of its last node refused, and the call has returned the error
\* with the five packets taken so far counted
C23_Witness ==
    /\ ReturnedError(rsCall) /\ rsCall.method = "ReduceScatter" /\ rsCall.err = "send"
    /\ rst.numNodes >= 3
    /\ net.rounds = 2 /\ net.failed = 1 /\ net.runs = 1
    /\ Len(net.calls) = rst.numNodes /\ ~net.calls[rst.numNodes].ok
    /\ rst.totalMessages = 2 * rst.numNodes - 1

\* C24: AllGather and ReduceScatterSimple return an error and no result
\* whenever one of their rounds has not drained in time or has had a packet
\* refused, and they start no round after the one that failed.
C24_SimulatedRoundsReportFailure ==
    rsCall.method \in {"AllGather", "ReduceScatterSimple"} /\ net.failed >= 1 =>
        /\ net.rounds = net.failed
        /\ rsCall.phase = "returned" => ReturnedError(rsCall)

(***************************************************************************)
(* Properties of the reduce-scatter ring                                   *)
(***************************************************************************)
\* the reduction with op of column col of the matrix m from row row down
RECURSIVE ReduceDown(_, _, _, _)
ReduceDown(op, m, col, row) ==
    IF row = Len(m) THEN m[row][col]
    ELSE ApplyReduce(op, m[row][col], ReduceDown(op, m, col, row + 1))

\* C25: a ReduceScatter on a matrix of N rows whose rounds have all drained
\* returns a vector of N entries, entry i being the reduction with op of
\* column i over the N rows, for SUM, MAX, MIN and PROD.
C25_ReduceScatterColumns ==
    (rsCall.method = "ReduceScatter" /\ rsCall.phase = "returned" /\ rsCall.err = "") =>
        /\ Len(rsCall.result) = rst.numNodes
        /\ \A i \in DOMAIN rsCall.result :
              rsCall.result[i] = ReduceDown(rsCall.op, rsCall.input, i, 1)

\* C26: an AllGather on a ring of N >= 1 nodes with an input of N values
\* returns a matrix of N rows of N entries with result[i][j] = input[j]
\* after exactly N-1 rounds; in every round each node i makes exactly one
\* injection, to node (i+1) mod N, and when the network takes every packet
\* N*(N-1) packets have been injected in all.
C26_AllGatherMatrix ==
    /\ [](rsCall.method = "AllGather" /\ rsCall.phase = "returned"
              /\ Len(rsCall.input) = rst.numNodes =>
             /\ rsCall.err = ""
             /\ Len(rsCall.result) = rst.numNodes
             /\ \A i \in 1..rst.numNodes :
                   /\ Len(rsCall.result[i]) = rst.numNodes
                   /\ \A j \in 1..rst.numNodes : rsCall.result[i][j] = rsCall.input[j]
             /\ rst.numNodes >= 1 => net.rounds = rst.numNodes - 1
             /\ net.failed = 0 => net.injected = rst.numNodes * (rst.numNodes - 1))
    /\ [][rsCall.method = "AllGather" /\ net'.rounds # net.rounds =>
             /\ net'.rounds = net.rounds + 1
             /\ rsCall'.phase = "rounds"
             /\ RingRound(net'.calls, rst.numNodes)
         ]_vars

\* C26 witness: an AllGather of three values that are not all the same has
\* returned after two rounds in which the network took every packet
C26_Witness ==
    /\ rsCall.method = "AllGather" /\ rsCall.phase = "returned" /\ rsCall.err = ""
    /\ rst.numNodes = 3
    /\ rsCall.input[1] # rsCall.input[2]
    /\ net.rounds = 2 /\ net.failed = 0 /\ net.injected = 6

(***************************************************************************)
(* Properties of the codec                                                 *)
(***************************************************************************)
\* C27: decodeInt64(encodeInt64(v)) = v for every int64 v, the negative
\* values, the minimum and the maximum included, and
\* decodeInt64Array(encodeInt64Array(vs)) = vs for every sequence vs of
\* int64 values.
C27_CodecRoundTrip ==
    /\ codec.op = "decodeInt64" /\ codec.whole => codec.out = codec.val
    /\ codec.op = "decodeInt64Array" /\ codec.whole =>
           ~codec.isNil /\ codec.outs = codec.values

\* C27 witness: the minimum int64, whose only one bit is the sign, has been
\* encoded as seven zero bytes and 0x80 and decoded again
C27_Witness ==
    /\ codec.op = "decodeInt64" /\ codec.whole
    /\ codec.val = {Int64Bits - 1}
    /\ codec.data = <<0, 0, 0, 0, 0, 0, 0, 128>>
    /\ codec.out = codec.val

\* the input of a ReduceScatter on n nodes is malformed: it has not n rows,
\* or rows of unequal length, or rows of fewer than n columns
Malformed(input, n) ==
    \/ Len(input) # n
    \/ \E i, j \in DOMAIN input : Len(input[i]) # Len(input[j])
    \/ \E i \in DOMAIN input : Len(input[i]) < n

\* C29: a ReduceScatter called with a malformed input never crashes, and
\* what it returns is an error and no result.
C29_MalformedInputIsAnError ==
    (rsCall.method = "ReduceScatter" /\ Malformed(rsCall.input, rst.numNodes)) =>
        /\ ~crashed
        /\ rsCall.phase # "panicked"
        /\ rsCall.phase = "returned" => ReturnedError(rsCall)

(***************************************************************************)
(* Properties of the Init methods of the switch                            *)
(***************************************************************************)
\* C30: DQPinPartition.Init and InterChipSwitch.Init return an error, and
\* neither succeed nor crash, whenever total_pins, num_channels or num_chips
\* is zero or negative.
C30_NonPositiveInitIsAnError ==
    [][ ( \/ /\ lastOp'.op = "DQInit"
             /\ (lastOp'.a <= 0 \/ lastOp'.b <= 0)
          \/ /\ lastOp'.op = "ICSInit"
             /\ (lastOp'.a <= 0 \/ lastOp'.b <= 0 \/ lastOp'.c <= 0) )
        => ~lastOp'.ok /\ ~crashed' ]_vars

(***************************************************************************)
(* Properties of the progress of the inter-rank queue                      *)
(***************************************************************************)
\* the message with this id is waiting in the FIFO
Queued(id) == \E i \in DOMAIN irq.messageQueue : irq.messageQueue[i].MessageID = id

\* C35: every message accepted by Broadcast or SendPointToPoint, whatever
\* its payload size, is eventually delivered when Cycle keeps being called:
\* it does not stay in the FIFO for ever.
C35_AcceptedIsEventuallyDelivered ==
    \A id \in 0..(FlowMaxMsgs - 1) : Queued(id) ~> ~Queued(id)

(***************************************************************************)
(* Properties of the statistics of the inter-rank queue                    *)
(***************************************************************************)
\* the messages delivered so far, in the bucket that receives every message
\* of this traffic and is never read
DeliveredSoFar == irq.pendingMessages[makeKey(0, IRQRanks - 1)]

\* C36: total_messages counts the successful Broadcast and SendPointToPoint
\* calls, total_broadcasts the successful Broadcast calls, cycles the Cycle
\* calls, and total_bytes_transferred is the sum of the payload sizes of the
\* messages delivered over the bus, so that it never exceeds
\* cycles * bandwidth.
C36_StatisticsCountWhatHappened ==
    /\ [](/\ irq.totalBytesTransferred = PayloadSum(DeliveredSoFar, Len(DeliveredSoFar))
          /\ irq.totalBytesTransferred <= irq.cycles * irq.bandwidth)
    /\ [][ /\ irq'.totalMessages = irq.totalMessages +
                 (IF lastOp'.op \in {"Broadcast", "SendPointToPoint"} /\ lastOp'.ok
                  THEN 1 ELSE 0)
           /\ irq'.totalBroadcasts = irq.totalBroadcasts +
                 (IF lastOp'.op = "Broadcast" /\ lastOp'.ok THEN 1 ELSE 0)
           /\ irq'.cycles = irq.cycles + (IF lastOp'.op = "QueueCycle" THEN 1 ELSE 0)
         ]_vars

(***************************************************************************)
(* Properties of the placement of the rings on the mesh                    *)
(***************************************************************************)
MeshMaxDim == 2

\* the positions are pairwise distinct and inside a mesh of W by H nodes
PlacedInMesh(nodePositions, W, H) ==
    /\ \A i \in DOMAIN nodePositions :
          /\ 0 <= nodePositions[i].x /\ nodePositions[i].x < W
          /\ 0 <= nodePositions[i].y /\ nodePositions[i].y < H
    /\ \A i, j \in DOMAIN nodePositions :
          i # j => nodePositions[i] # nodePositions[j]

\* the node reached from node 0 by k steps of GetNextNode
RECURSIVE NextTimes(_, _)
NextTimes(rt, k) == IF k = 0 THEN 0 ELSE GetNextNode(rt, NextTimes(rt, k - 1))

\* C38: for every mesh of width W and height H and every node count
\* N <= W*H, RingTopology.Init and ReduceScatterTopology.Init put the N ring
\* nodes on pairwise distinct positions inside the mesh, GetPrevNode is the
\* inverse of GetNextNode, and the ring visits all N nodes in one cycle.
C38_RingFitsTheMesh ==
    \A W, H \in 1..MeshMaxDim :
        ring.numNodes <= W * H =>
            /\ Len(ring.nodePositions) = ring.numNodes
            /\ Len(rst.nodePositions) = rst.numNodes
            /\ PlacedInMesh(ring.nodePositions, W, H)
            /\ PlacedInMesh(rst.nodePositions, W, H)
            /\ \A i \in 0..(ring.numNodes - 1) :
                  /\ GetPrevNode(ring, GetNextNode(ring, i)) = i
                  /\ GetNextNode(ring, GetPrevNode(ring, i)) = i
            /\ {NextTimes(ring, k) : k \in 1..ring.numNodes} = 0..(ring.numNodes - 1)

\* the matrix has n rows of n columns
Square(m, n) == Len(m) = n /\ \A i \in DOMAIN m : Len(m[i]) = n

\* C39: ReduceScatter and ReduceScatterSimple are equivalent: for every op
\* and every matrix of N rows of N columns, a ReduceScatter whose rounds
\* have all drained returns the vector that ReduceScatterSimple computes for
\* the same input, and either call has injected N*(N-1) packets when the
\* network took them all.
C39_ReduceScatterMatchesSimple ==
    (rsCall.method \in {"ReduceScatter", "ReduceScatterSimple"}
         /\ rsCall.phase = "returned" /\ rsCall.err = "" /\ net.failed = 0
         /\ Square(rsCall.input, rst.numNodes)) =>
        /\ rsCall.result = RSSimpleReduce(rst, rsCall.input, rsCall.op).result
        /\ net.injected = rst.numNodes * (rst.numNodes - 1)
        /\ rst.totalMessages = net.injected

(***************************************************************************)
(* Properties of RingAllReduceSimple                                       *)
(***************************************************************************)
\* the left fold of ApplyReduce(op, ., .) over v[i..], started from acc
RECURSIVE LeftFold(_, _, _, _)
LeftFold(op, v, i, acc) ==
    IF i > Len(v) THEN acc ELSE LeftFold(op, v, i + 1, ApplyReduce(op, acc, v[i]))

\* C40: for every op and every input vector of N >= 1 values,
\* RingAllReduceSimple returns the left fold of ApplyReduce(op, ., .) over
\* the N inputs, SUM and PROD wrapping around, and every element of the
\* vector that RingAllReduce returns for the same input equals that value.
C40_SimpleIsTheFold ==
    /\ (allReduce.phase = "simpleReturned" /\ allReduce.err = ""
            /\ ring.numNodes >= 1) =>
           allReduce.result =
               <<LeftFold(allReduce.op, allReduce.initialValues, 2,
                          allReduce.initialValues[1])>>
    /\ (allReduce.phase = "returned" /\ allReduce.err = "") =>
           \A i \in DOMAIN allReduce.result :
               allReduce.result[i] =
                   RingAllReduceSimple(ring, allReduce.initialValues, allReduce.op).value

====
